---------------------------- MODULE Spec2Model ----------------------------
(***************************************************************************)
(* A model of go-ansiterm: the Windows console event handler               *)
(* (WindowsAnsiEventHandler), its scroll helpers, the CSI parameter        *)
(* helpers and the parser with its Ground state.                           *)
(*                                                                         *)
(* Every handler method is an operator on a "world" record w that holds    *)
(* the handler's fields, the console behind the file descriptor, the log   *)
(* of backend calls made by the current event and the error flag.  A       *)
(* method that returns an error in Go returns a world with err = TRUE.     *)
(***************************************************************************)
EXTENDS Integers, Sequences, FiniteSets, TLC

(***************************************************************************)
(* Bounds of the model.                                                    *)
(***************************************************************************)
\* columns of the screen buffer (and of the window)
SizeX == 3
\* rows of the console window
WinRows == 3
\* rows of the screen buffer below/above the window (Size.Y - window height)
ExtraRows == 1
\* longest pending output buffer explored
MaxBuf == 2
\* a backend call of an event can be made to fail: the 1st .. MaxFail-th
MaxFail == 2

SizeY == WinRows + ExtraRows

(***************************************************************************)
(* C0 bytes handled by Execute, and the printable bytes explored.          *)
(***************************************************************************)
ANSI_BEL == 7
ANSI_BACKSPACE == 8
ANSI_TAB == 9
ANSI_LINE_FEED == 10
ANSI_VERTICAL_TAB == 11
ANSI_FORM_FEED == 12
ANSI_CARRIAGE_RETURN == 13
ANSI_SGR_RESET == 0
\* a C0 byte Execute ignores (NUL)
ANSI_NUL == 0
PrintableBytes == {97, 98}
ExecuteBytes == {ANSI_NUL, ANSI_BEL, ANSI_BACKSPACE, ANSI_TAB, ANSI_LINE_FEED,
                 ANSI_VERTICAL_TAB, ANSI_FORM_FEED, ANSI_CARRIAGE_RETURN}

(***************************************************************************)
(* SHORT is a 16-bit signed integer, WORD a 16-bit unsigned one.           *)
(***************************************************************************)
ShortMin == -32768
ShortMax == 32767
SHORT(n) == ((n + 32768) % 65536) - 32768

COORD(x, y) == [X |-> x, Y |-> y]

\* utilities: ensureInRange / AddInRange (16-bit arithmetic, then a clamp)
ensureInRange(n, min, max) ==
    IF n < min THEN min ELSE IF n > max THEN max ELSE n

AddInRange(n, increment, min, max) ==
    ensureInRange(SHORT(n + increment), min, max)


(***************************************************************************)
(* The console behind the file descriptor (the ConsoleBackend capability). *)
(* CONSOLE_SCREEN_BUFFER_INFO is the whole console state the handler can   *)
(* read: the buffer size, the cursor, the text attributes and the window.  *)
(***************************************************************************)
SMALL_RECT(left, top, right, bottom) ==
    [Left |-> left, Top |-> top, Right |-> right, Bottom |-> bottom]

ConsoleAt(x, y, winTop, attr) ==
    [Size |-> COORD(SizeX, SizeY),
     CursorPosition |-> COORD(x, y),
     Attributes |-> attr,
     Window |-> SMALL_RECT(0, winTop, SizeX - 1, winTop + WinRows - 1)]

\* the window follows the cursor when the cursor leaves it
WindowFollow(con) ==
    LET y == con.CursorPosition.Y
        win == con.Window
        shift == IF y > win.Bottom THEN y - win.Bottom
                 ELSE IF y < win.Top THEN y - win.Top ELSE 0
    IN  [con EXCEPT !.Window.Top = @ + shift, !.Window.Bottom = @ + shift]

\* a line feed written to the console: column 0 of the next row; on the last
\* row of the screen buffer the content scrolls and the cursor row stays
ConsoleNewline(con) ==
    LET y == con.CursorPosition.Y
        ny == IF y < con.Size.Y - 1 THEN y + 1 ELSE y
    IN  WindowFollow([con EXCEPT !.CursorPosition = COORD(0, ny)])

\* one byte written to the console through the file
ConsoleWriteByte(con, b) ==
    LET pos == con.CursorPosition
    IN  CASE b = ANSI_BACKSPACE ->
               [con EXCEPT !.CursorPosition.X = IF @ > 0 THEN @ - 1 ELSE 0]
          [] b = ANSI_CARRIAGE_RETURN -> [con EXCEPT !.CursorPosition.X = 0]
          [] b = ANSI_LINE_FEED -> ConsoleNewline(con)
          [] b >= 32 ->
               IF pos.X < con.Size.X - 1
               THEN [con EXCEPT !.CursorPosition.X = @ + 1]
               ELSE ConsoleNewline(con)
          [] OTHER -> con

RECURSIVE ConsoleWrite(_, _)
ConsoleWrite(con, bytes) ==
    IF bytes = <<>> THEN con
    ELSE ConsoleWrite(ConsoleWriteByte(con, Head(bytes)), Tail(bytes))

(***************************************************************************)
(* Backend calls.  failAt counts down the backend calls of the event: the  *)
(* call made when failAt = 1 returns an error and has no effect.           *)
(***************************************************************************)
BackendFails(w) == w.failAt = 1

Failed(w) == [w EXCEPT !.err = TRUE, !.failAt = 0]

Called(w) == [w EXCEPT !.failAt = IF @ > 0 THEN @ - 1 ELSE 0]

\* pending records, for each logged call, the length of the handler's buffer
\* when the call was issued
Logged(w, call) ==
    [Called(w) EXCEPT !.calls = Append(@, call),
                      !.pending = Append(@, Len(w.buffer))]

\* the info a successful GetConsoleScreenBufferInfo returns is w.console
GetConsoleScreenBufferInfo(w) ==
    IF BackendFails(w) THEN Failed(w) ELSE Called(w)

InBuffer(con, pos) ==
    /\ 0 <= pos.X /\ pos.X < con.Size.X
    /\ 0 <= pos.Y /\ pos.Y < con.Size.Y

\* rejected when the position is outside the screen buffer
SetConsoleCursorPosition(w, pos) ==
    IF BackendFails(w) \/ ~InBuffer(w.console, pos) THEN Failed(w)
    ELSE [Logged(w, [op |-> "SetConsoleCursorPosition", pos |-> pos])
            EXCEPT !.console = WindowFollow([@ EXCEPT !.CursorPosition = pos])]

SetConsoleTextAttribute(w, attr) ==
    IF BackendFails(w) THEN Failed(w)
    ELSE [Logged(w, [op |-> "SetConsoleTextAttribute", attr |-> attr])
            EXCEPT !.console.Attributes = attr]

\* the rows whose content row r of the screen buffer shows after a call of
\* ScrollConsoleScreenBuffer: {s} for the former row s, {} for the fill cell.
\* The block scrollRect (cut to the screen buffer) moves to destOrigin; a
\* row of the block that nothing moved into is filled; rows outside
\* clipRegion do not change.  The handler's rectangles span the columns.
RowAfterScroll(call, size, r) ==
    LET srcTop == IF call.scrollRect.Top < 0 THEN 0 ELSE call.scrollRect.Top
        srcBottom == IF call.scrollRect.Bottom > size.Y - 1 THEN size.Y - 1
                     ELSE call.scrollRect.Bottom
        from == r + (call.scrollRect.Top - call.destOrigin.Y)
    IN  IF r < call.clipRegion.Top \/ r > call.clipRegion.Bottom THEN {r}
        ELSE IF srcTop <= from /\ from <= srcBottom THEN {from}
        ELSE IF srcTop <= r /\ r <= srcBottom THEN {}
        ELSE {r}

ScrollConsoleScreenBuffer(w, scrollRect, clipRegion, destOrigin, char) ==
    IF BackendFails(w) THEN Failed(w)
    ELSE Logged(w, [op |-> "ScrollConsoleScreenBuffer", scrollRect |-> scrollRect,
                    clipRegion |-> clipRegion, destOrigin |-> destOrigin,
                    char |-> char])

\* paints one cell; the cursor does not move
WriteConsoleOutput(w, charInfo, region) ==
    IF BackendFails(w) THEN Failed(w)
    ELSE Logged(w, [op |-> "WriteConsoleOutput", charInfo |-> charInfo,
                    region |-> region])

\* file.Write: the bytes reach the console and move its cursor
FileWrite(w, bytes) ==
    IF BackendFails(w) THEN Failed(w)
    ELSE [Logged(w, [op |-> "Write", bytes |-> bytes])
            EXCEPT !.console = ConsoleWrite(@, bytes)]

(***************************************************************************)
(* WindowsAnsiEventHandler: cursor cache, wrap state, Flush.               *)
(***************************************************************************)
\* "if err != nil { return err }": the next step runs on success only
OnOk(w, F(_)) == IF w.err THEN w ELSE F(w)

\* curInfo is <<>> for nil and <<info>> otherwise
NoInfo == <<>>

clearWrap(w) == [w EXCEPT !.wrapNext = FALSE, !.drewMarginByte = FALSE]

\* a faulty FlushBuffer: the buffer is written but keeps its bytes
FlushBufferKept(w) ==
    IF Len(w.buffer) > 0 THEN FileWrite(w, w.buffer) ELSE w

\* a faulty FlushBuffer: the buffer is emptied whether or not the write
\* succeeded
FlushBufferDropped(w) ==
    IF Len(w.buffer) > 0
    THEN [FileWrite(w, w.buffer) EXCEPT !.buffer = <<>>]
    ELSE w

\* h.buffer.WriteTo(h.file): a successful write leaves the buffer empty
FlushBuffer(w) ==
    IF Len(w.buffer) > 0
    THEN OnOk(FileWrite(w, w.buffer), LAMBDA wr : [wr EXCEPT !.buffer = <<>>])
    ELSE w

\* a faulty DrawMarginByte: the paint is not recorded
DrawMarginByteUnmarked(w) ==
    LET info == w.console
        charInfo == [UnicodeChar |-> w.marginByte, Attributes |-> info.Attributes]
        region == SMALL_RECT(info.CursorPosition.X, info.CursorPosition.Y,
                             info.CursorPosition.X, info.CursorPosition.Y)
    IN  WriteConsoleOutput(w, charInfo, region)

\* the margin byte is painted at the console's cursor, which does not move
DrawMarginByte(w) ==
    LET info == w.console
        charInfo == [UnicodeChar |-> w.marginByte, Attributes |-> info.Attributes]
        region == SMALL_RECT(info.CursorPosition.X, info.CursorPosition.Y,
                             info.CursorPosition.X, info.CursorPosition.Y)
    IN  OnOk(WriteConsoleOutput(w, charInfo, region),
             LAMBDA wd : [wd EXCEPT !.drewMarginByte = TRUE])

h_Flush(w) ==
    OnOk(FlushBuffer([w EXCEPT !.curInfo = NoInfo]),
         LAMBDA w1 : IF w1.wrapNext /\ ~w1.drewMarginByte
                     THEN OnOk(GetConsoleScreenBufferInfo(w1), DrawMarginByte)
                     ELSE w1)

\* of the cached info the handler reads Size and Window only (the cursor is
\* read from curPos), so the cache keeps these two fields
CachedInfo(info) == [Size |-> info.Size, Window |-> info.Window]

\* on success the cache is valid: pos is w.curPos and info is w.curInfo[1]
getCurrentInfo(w) ==
    IF w.curInfo = NoInfo
    THEN OnOk(GetConsoleScreenBufferInfo(w),
              LAMBDA w1 : [w1 EXCEPT !.curInfo = <<CachedInfo(w1.console)>>,
                                     !.curPos = w1.console.CursorPosition])
    ELSE w

updatePos(w, pos) ==
    IF w.curInfo = NoInfo THEN [w EXCEPT !.panicked = TRUE, !.err = TRUE]
    ELSE [w EXCEPT !.curPos = pos]

(***************************************************************************)
(* Scroll region and scrolling.                                            *)
(***************************************************************************)
scrollRegion(top, bottom) == [top |-> top, bottom |-> bottom]

\* a faulty effectiveSr: the clamped rows are used even when top >= bottom
effectiveSrClamped(w, window) ==
    scrollRegion(AddInRange(window.Top, w.sr.top, window.Top, window.Bottom),
                 AddInRange(window.Top, w.sr.bottom, window.Top, window.Bottom))

effectiveSr(w, window) ==
    LET top == AddInRange(window.Top, w.sr.top, window.Top, window.Bottom)
        bottom == AddInRange(window.Top, w.sr.bottom, window.Top, window.Bottom)
    IN  IF top >= bottom THEN scrollRegion(window.Top, window.Bottom)
        ELSE scrollRegion(top, bottom)

scroll(w, param, sr0) ==
    LET info == w.console
        sr == IF sr0.top >= sr0.bottom
              THEN scrollRegion(0, SHORT(SHORT(info.Window.Bottom - info.Window.Top) + 1))
              ELSE sr0
        rect == info.Window
        top == SHORT(rect.Top + sr.top)
        bottom == SHORT(rect.Top + sr.bottom)
        scrollRect == SMALL_RECT(rect.Left, SHORT(top + SHORT(param)),
                                 rect.Right, SHORT(bottom + SHORT(param)))
        clipRegion == SMALL_RECT(rect.Left, top, rect.Right, bottom)
        destOrigin == COORD(rect.Left, top)
        char == [UnicodeChar |-> 32, Attributes |-> w.attributes]
    IN  OnOk(GetConsoleScreenBufferInfo(w),
             LAMBDA w1 : ScrollConsoleScreenBuffer(w1, scrollRect, clipRegion,
                                                   destOrigin, char))

scrollUp(w, param) == scroll(w, param, w.sr)

scrollDown(w, param) == scroll(w, -param, w.sr)

scrollPage(w, param) ==
    OnOk(GetConsoleScreenBufferInfo(w),
         LAMBDA w1 : scroll(w1, param,
                            scrollRegion(0, SHORT(w1.console.Size.Y - 1))))

scrollPageUp(w) == scrollPage(w, 1)

scrollPageDown(w) == scrollPage(w, -1)

(***************************************************************************)
(* simulateLF: the result is in w.handled, the error in w.err.             *)
(***************************************************************************)
Handled(w, b) == [w EXCEPT !.handled = b]

\* a faulty report: the line feed was realised but is reported as not handled
HandledLost(w) == Handled(w, FALSE)

\* "return true, nil" after the last backend call, "return false, err" else
HandledIfOk(w) == Handled(w, ~w.err)

\* a faulty FlushWrap: the wrap is cleared without the Flush
ClearWrapUnflushed(w) == clearWrap(w)

\* "if h.wrapNext { Flush; clearWrap }"
FlushWrap(w) ==
    IF w.wrapNext THEN OnOk(h_Flush(w), clearWrap) ELSE w

\* a faulty LFAtCursor: the cached cursor does not move to the next row
LFNotAdvanced(w, includeCR) == Handled(w, FALSE)

\* simulateLF from "sr := h.effectiveSr(info.Window)" on: the cache is valid
LFAtCursor(w, includeCR) ==
    LET pos == w.curPos
        info == w.curInfo[1]
        sr == effectiveSr(w, info.Window)
        pos0 == [pos EXCEPT !.X = 0]
    IN  IF pos.Y = sr.bottom
        THEN IF sr.top = info.Window.Top /\ sr.bottom = info.Window.Bottom
             THEN Handled(IF includeCR THEN updatePos(w, pos0) ELSE w, FALSE)
             ELSE HandledIfOk(
                      OnOk(OnOk(h_Flush(w), LAMBDA w3 : scrollUp(w3, 1)),
                           LAMBDA w4 : IF includeCR
                                       THEN SetConsoleCursorPosition(w4, pos0)
                                       ELSE w4))
        ELSE IF pos.Y < info.Window.Bottom
        THEN Handled(updatePos(w, [pos EXCEPT !.Y = SHORT(@ + 1),
                                              !.X = IF includeCR THEN 0 ELSE @]),
                     FALSE)
        ELSE IF includeCR
             THEN HandledIfOk(
                      OnOk(h_Flush(w),
                           LAMBDA w3 : SetConsoleCursorPosition(w3, pos0)))
             ELSE Handled(w, TRUE)

simulateLF(w, includeCR) ==
    OnOk(Handled(OnOk(FlushWrap(w), getCurrentInfo), FALSE),
         LAMBDA w2 : LFAtCursor(w2, includeCR))

(***************************************************************************)
(* Printable bytes and C0 bytes.                                           *)
(***************************************************************************)
WriteByte(w, b) == [w EXCEPT !.buffer = Append(@, b)]

\* a faulty update: the buffer is flushed, which invalidates the cache,
\* before the position is stored
FlushThenUpdate(w, pos, b) ==
    OnOk(h_Flush(w), LAMBDA u : WriteByte(updatePos(u, pos), b))

\* h.updatePos(pos) followed by h.buffer.WriteByte(b); a panic ends the event
UpdateThenWrite(w, pos, b) ==
    OnOk(updatePos(w, pos), LAMBDA u : WriteByte(u, b))

\* a faulty PrintAtCursor: the byte is queued in the last column as well
PrintAlwaysQueued(w, b) ==
    UpdateThenWrite(w, [w.curPos EXCEPT !.X = SHORT(@ + 1)], b)

\* Print from "pos, info, err := h.getCurrentInfo()" on: the cache is valid
PrintAtCursor(w, b) ==
    IF w.curPos.X = w.curInfo[1].Size.X - 1
    THEN [w EXCEPT !.wrapNext = TRUE, !.marginByte = b]
    ELSE UpdateThenWrite(w, [w.curPos EXCEPT !.X = SHORT(@ + 1)], b)

h_Print(w, b) ==
    OnOk(OnOk(IF w.wrapNext
              THEN simulateLF(clearWrap(WriteByte(w, w.marginByte)), TRUE)
              ELSE w,
              getCurrentInfo),
         LAMBDA w2 : PrintAtCursor(w2, b))

\* IND after simulateLF did not handle the line feed: the cache is valid
INDAtCursor(w) ==
    IF w.curPos.X # 0
    THEN OnOk(h_Flush(WriteByte(w, ANSI_LINE_FEED)),
              LAMBDA w4 : SetConsoleCursorPosition(w4, w.curPos))
    ELSE WriteByte(w, ANSI_LINE_FEED)

h_IND(w) ==
    OnOk(simulateLF(w, FALSE),
         LAMBDA w1 : IF w1.handled THEN w1
                     ELSE OnOk(getCurrentInfo(w1), INDAtCursor))

\* TAB without a pending wrap: the cache is valid
TabAtCursor(w) ==
    LET pos == w.curPos
        info == w.curInfo[1]
        x == SHORT(SHORT(pos.X + 8) - (pos.X % 8))
        npos == [pos EXCEPT !.X = IF x >= info.Size.X THEN info.Size.X - 1 ELSE x]
    IN  OnOk(h_Flush(w), LAMBDA w2 : SetConsoleCursorPosition(w2, npos))

\* BS and CR after the wrap is resolved: the cache is valid
BackspaceAtCursor(w) ==
    IF w.curPos.X > 0
    THEN UpdateThenWrite(w, [w.curPos EXCEPT !.X = @ - 1], ANSI_BACKSPACE)
    ELSE w

ReturnAtCursor(w) ==
    IF w.curPos.X # 0
    THEN UpdateThenWrite(w, [w.curPos EXCEPT !.X = 0], ANSI_CARRIAGE_RETURN)
    ELSE w

h_Execute(w, b) ==
    CASE b = ANSI_TAB ->
           IF ~w.wrapNext THEN OnOk(getCurrentInfo(w), TabAtCursor) ELSE w
      [] b = ANSI_BEL -> WriteByte(w, ANSI_BEL)
      [] b = ANSI_BACKSPACE ->
           OnOk(OnOk(FlushWrap(w), getCurrentInfo), BackspaceAtCursor)
      [] b \in {ANSI_VERTICAL_TAB, ANSI_FORM_FEED} -> h_IND(w)
      [] b = ANSI_LINE_FEED ->
           OnOk(simulateLF(w, TRUE),
                LAMBDA w1 : IF w1.handled THEN w1
                            ELSE WriteByte(w1, ANSI_LINE_FEED))
      [] b = ANSI_CARRIAGE_RETURN ->
           OnOk(OnOk(FlushWrap(w), getCurrentInfo), ReturnAtCursor)
      [] OTHER -> w

(***************************************************************************)
(* Cursor helpers (cursor_helpers.go): the new position is clamped to the  *)
(* window rows and to the columns 0 .. Size.X - 1.                         *)
(***************************************************************************)
setCursorPosition(w, position, sizeBuffer) ==
    SetConsoleCursorPosition(w,
        COORD(ensureInRange(position.X, 0, sizeBuffer.X - 1),
              ensureInRange(position.Y, 0, sizeBuffer.Y - 1)))

moveCursor(w, x, y) ==
    LET info == w.console
        position == COORD(
            ensureInRange(SHORT(info.CursorPosition.X + SHORT(x)), 0, info.Size.X - 1),
            ensureInRange(SHORT(info.CursorPosition.Y + SHORT(y)),
                          info.Window.Top, info.Window.Bottom))
    IN  OnOk(GetConsoleScreenBufferInfo(w),
             LAMBDA w1 : SetConsoleCursorPosition(w1, position))

moveCursorVertical(w, param) == moveCursor(w, 0, param)

moveCursorHorizontal(w, param) == moveCursor(w, param, 0)

moveCursorLine(w, param) ==
    LET info == w.console
        position == COORD(0,
            ensureInRange(SHORT(info.CursorPosition.Y + SHORT(param)),
                          info.Window.Top, info.Window.Bottom))
    IN  OnOk(GetConsoleScreenBufferInfo(w),
             LAMBDA w1 : SetConsoleCursorPosition(w1, position))

moveCursorColumn(w, param) ==
    LET info == w.console
        position == COORD(ensureInRange(SHORT(param - 1), 0, info.Size.X - 1),
                          info.CursorPosition.Y)
    IN  OnOk(GetConsoleScreenBufferInfo(w),
             LAMBDA w1 : SetConsoleCursorPosition(w1, position))

\* erase_helpers.go: the cells from start to end take a space and attributes
clearRange(w, attributes, start, end) ==
    IF BackendFails(w) THEN Failed(w)
    ELSE Logged(w, [op |-> "clearRange", attributes |-> attributes,
                    start |-> start, end |-> end])

(***************************************************************************)
(* Cursor-motion commands.                                                 *)
(***************************************************************************)
\* clearRange clears the cells from start to end in reading order, both
\* included
InReadingOrder(a, b) == a.Y < b.Y \/ (a.Y = b.Y /\ a.X <= b.X)

Cells(size) == {COORD(x, y) : x \in 0..(size.X - 1), y \in 0..(size.Y - 1)}

ClearedCells(call, size) ==
    {c \in Cells(size) : InReadingOrder(call.start, c) /\ InReadingOrder(c, call.end)}

\* a faulty prologue: Flush without clearWrap
FlushOnly(w) == h_Flush(w)

\* a faulty FlushClear: the wrap is cleared but the buffer is not flushed
FlushSkipped(w) == clearWrap([w EXCEPT !.curInfo = NoInfo])

\* the common prologue: Flush, then clearWrap
FlushClear(w) == OnOk(h_Flush(w), clearWrap)

h_CUU(w, param) ==
    OnOk(FlushClear(w), LAMBDA w1 : moveCursorVertical(w1, -param))

h_CUD(w, param) ==
    OnOk(FlushClear(w), LAMBDA w1 : moveCursorVertical(w1, param))

h_CUF(w, param) ==
    OnOk(FlushClear(w), LAMBDA w1 : moveCursorHorizontal(w1, param))

h_CUB(w, param) ==
    OnOk(FlushClear(w), LAMBDA w1 : moveCursorHorizontal(w1, -param))

h_CNL(w, param) ==
    OnOk(FlushClear(w), LAMBDA w1 : moveCursorLine(w1, param))

h_CPL(w, param) ==
    OnOk(FlushClear(w), LAMBDA w1 : moveCursorLine(w1, -param))

h_CHA(w, param) ==
    OnOk(FlushClear(w), LAMBDA w1 : moveCursorColumn(w1, param))

\* VPA from "info, err := GetConsoleScreenBufferInfo(h.fd)" on
VPAAtCursor(w, param) ==
    LET info == w.console
        pos == [info.CursorPosition EXCEPT
                  !.Y = ensureInRange(SHORT(param - 1), info.Window.Top,
                                      info.Window.Bottom)]
    IN  OnOk(GetConsoleScreenBufferInfo(w),
             LAMBDA w2 : SetConsoleCursorPosition(w2, pos))

h_VPA(w, param) ==
    OnOk(FlushClear(w), LAMBDA w1 : VPAAtCursor(w1, param))

\* CUP from "info, err := GetConsoleScreenBufferInfo(h.fd)" on
CUPAtCursor(w, row, col) ==
    LET info == w.console
        rect == info.Window
        rowS == AddInRange(SHORT(row - 1), rect.Top, rect.Top, rect.Bottom)
        colS == ensureInRange(SHORT(col - 1), 0, info.Size.X - 1)
    IN  OnOk(GetConsoleScreenBufferInfo(w),
             LAMBDA w2 : setCursorPosition(w2, COORD(colS, rowS), info.Size))

h_CUP(w, row, col) ==
    OnOk(FlushClear(w), LAMBDA w1 : CUPAtCursor(w1, row, col))

h_HVP(w, row, col) ==
    OnOk(FlushClear(w), LAMBDA w1 : h_CUP(w1, row, col))

h_DECTCEM(w, visible) == FlushClear(w)

(***************************************************************************)
(* Attribute translation (attr_translation.go).  A WORD's bits 0-2 are the *)
(* foreground colour, bit 3 its intensity, bits 4-6 the background colour, *)
(* bit 7 its intensity, bit 15 the underscore.                             *)
(***************************************************************************)
Bit(attrs, k) == (attrs \div k) % 2

SetBit(attrs, k) == IF Bit(attrs, k) = 1 THEN attrs ELSE attrs + k

ClearBit(attrs, k) == IF Bit(attrs, k) = 1 THEN attrs - k ELSE attrs

\* ANSI colour index -> Windows colour bits (red and blue change places)
AnsiColour(i) ==
    CASE i = 0 -> 0 [] i = 1 -> 4 [] i = 2 -> 2 [] i = 3 -> 6
      [] i = 4 -> 1 [] i = 5 -> 5 [] i = 6 -> 3 [] OTHER -> 7

SetForeground(attrs, c) == attrs - (attrs % 8) + c

SetBackground(attrs, c) == attrs - (((attrs \div 16) % 8) * 16) + (c * 16)

\* the result is <<attributes, inverted>>
collectAnsiIntoWindowsAttributes(attrs, inverted, baseMode, ansiMode) ==
    CASE ansiMode = 1 -> <<SetBit(attrs, 8), inverted>>
      [] ansiMode = 4 -> <<SetBit(attrs, 32768), inverted>>
      [] ansiMode = 7 -> <<attrs, ~inverted>>
      [] ansiMode = 22 -> <<ClearBit(attrs, 8), inverted>>
      [] ansiMode = 24 -> <<ClearBit(attrs, 32768), inverted>>
      [] ansiMode = 27 -> <<attrs, FALSE>>
      [] ansiMode \in 30..37 ->
           <<SetForeground(attrs, AnsiColour(ansiMode - 30)), inverted>>
      [] ansiMode = 39 -> <<SetForeground(attrs, baseMode % 8), inverted>>
      [] ansiMode \in 40..47 ->
           <<SetBackground(attrs, AnsiColour(ansiMode - 40)), inverted>>
      [] ansiMode = 49 -> <<SetBackground(attrs, (baseMode \div 16) % 8), inverted>>
      [] ansiMode \in 90..97 ->
           <<SetBit(SetForeground(attrs, AnsiColour(ansiMode - 90)), 8), inverted>>
      [] ansiMode \in 100..107 ->
           <<SetBit(SetBackground(attrs, AnsiColour(ansiMode - 100)), 128), inverted>>
      [] OTHER -> <<attrs, inverted>>

\* the foreground and background nibbles change places
invertAttributes(attrs) ==
    ((attrs \div 256) * 256) + ((attrs % 16) * 16) + ((attrs \div 16) % 16)

(***************************************************************************)
(* Erase, insert/delete line, SGR, page scroll, DA, DECSTBM, RI.           *)
(***************************************************************************)
\* a faulty ED: the cursor stays where it is in every mode
EDCursorKept(w, param) ==
    LET info == w.console
        last == COORD(info.Size.X - 1, info.Size.Y - 1)
        start == IF param = 0 THEN info.CursorPosition ELSE COORD(0, 0)
        end == IF param = 1 THEN info.CursorPosition ELSE last
    IN  OnOk(GetConsoleScreenBufferInfo(w),
             LAMBDA w2 : clearRange(w2, w2.attributes, start, end))

\* ED from "info, err := GetConsoleScreenBufferInfo(h.fd)" on
EDAtCursor(w, param) ==
    LET info == w.console
        last == COORD(info.Size.X - 1, info.Size.Y - 1)
        start == CASE param = 0 -> info.CursorPosition
                   [] OTHER -> COORD(0, 0)
        end == CASE param = 0 -> last
                 [] param = 1 -> info.CursorPosition
                 [] param \in {2, 3} -> last
                 [] OTHER -> COORD(0, 0)
    IN  OnOk(OnOk(GetConsoleScreenBufferInfo(w),
                  LAMBDA w2 : clearRange(w2, w2.attributes, start, end)),
             LAMBDA w3 : IF param \in {2, 3}
                         THEN setCursorPosition(w3, COORD(0, 0), info.Size)
                         ELSE w3)

h_ED(w, param) ==
    OnOk(FlushClear(w), LAMBDA w1 : EDAtCursor(w1, param))

\* EL from "info, err := GetConsoleScreenBufferInfo(h.fd)" on
ELAtCursor(w, param) ==
    LET info == w.console
        start == CASE param = 0 -> info.CursorPosition
                   [] param \in {1, 2} -> COORD(0, info.CursorPosition.Y)
                   [] OTHER -> COORD(0, 0)
        end == CASE param = 0 -> COORD(info.Size.X, info.CursorPosition.Y)
                 [] param = 1 -> info.CursorPosition
                 [] param = 2 -> COORD(info.Size.X, info.CursorPosition.Y)
                 [] OTHER -> COORD(0, 0)
    IN  OnOk(GetConsoleScreenBufferInfo(w),
             LAMBDA w2 : clearRange(w2, w2.attributes, start, end))

h_EL(w, param) ==
    OnOk(FlushClear(w), LAMBDA w1 : ELAtCursor(w1, param))

h_IL(w, param) ==
    OnOk(OnOk(FlushClear(w), LAMBDA w1 : scrollDown(w1, param)),
         LAMBDA w2 : h_EL(w2, 2))

h_DL(w, param) ==
    OnOk(FlushClear(w), LAMBDA w1 : scrollUp(w1, param))

\* one parameter of the SGR loop
SGRStep(w, attr) ==
    LET r == collectAnsiIntoWindowsAttributes(
                 w.attributes, w.inverted, w.infoReset.Attributes, SHORT(attr))
    IN  IF attr = ANSI_SGR_RESET
        THEN [w EXCEPT !.attributes = w.infoReset.Attributes]
        ELSE [w EXCEPT !.attributes = r[1], !.inverted = r[2]]

\* the loop of SGR over its parameters
RECURSIVE SGRFold(_, _)
SGRFold(w, params) ==
    IF params = <<>> THEN w
    ELSE SGRFold(SGRStep(w, Head(params)), Tail(params))

\* SGR after the parameters are folded: the word is written to the console
SGRApply(w) ==
    SetConsoleTextAttribute(w, IF w.inverted THEN invertAttributes(w.attributes)
                               ELSE w.attributes)

\* a faulty SGR: the wrap state is cleared after the flush
SGRCancelsWrap(w, params) ==
    OnOk(FlushClear(w),
         LAMBDA w1 : SGRApply(IF Len(params) <= 0
                              THEN [w1 EXCEPT !.attributes = w1.infoReset.Attributes,
                                              !.inverted = FALSE]
                              ELSE SGRFold(w1, params)))

h_SGR(w, params) ==
    OnOk(h_Flush(w),
         LAMBDA w1 : SGRApply(IF Len(params) <= 0
                              THEN [w1 EXCEPT !.attributes = w1.infoReset.Attributes,
                                              !.inverted = FALSE]
                              ELSE SGRFold(w1, params)))

h_SU(w, param) == OnOk(FlushClear(w), scrollPageUp)

h_SD(w, param) == OnOk(FlushClear(w), scrollPageDown)

h_DA(w, params) == w

h_DECSTBM(w, top, bottom) ==
    OnOk(h_Flush(w),
         LAMBDA w1 : SetConsoleCursorPosition(
                         clearWrap([w1 EXCEPT !.sr = scrollRegion(SHORT(top - 1),
                                                                  SHORT(bottom - 1))]),
                         COORD(0, 0)))

\* RI from "info, err := GetConsoleScreenBufferInfo(h.fd)" on
RIAtCursor(w) ==
    IF w.console.CursorPosition.Y = effectiveSr(w, w.console.Window).top
    THEN scrollDown(w, 1)
    ELSE moveCursorVertical(w, -1)

h_RI(w) ==
    OnOk(OnOk(FlushClear(w), GetConsoleScreenBufferInfo), RIAtCursor)

(***************************************************************************)
(* CSI parameter helpers.  A Go string is the sequence of its bytes.       *)
(***************************************************************************)
\* the value of a string of decimal digits
RECURSIVE Decimal(_)
Decimal(s) ==
    IF s = <<>> THEN 0
    ELSE Decimal(SubSeq(s, 1, Len(s) - 1)) * 10 + (s[Len(s)] - 48)

\* strconv.Atoi with its error dropped: an optional sign and decimal digits;
\* 0 for any other string (strings are short: the value fits an int)
Atoi(s) ==
    LET digits == IF s # <<>> /\ s[1] \in {43, 45} THEN Tail(s) ELSE s
    IN  IF digits = <<>> \/ \E i \in 1..Len(digits) : digits[i] \notin 48..57
        THEN 0
        ELSE IF s[1] = 45 THEN -Decimal(digits) ELSE Decimal(digits)

getInts(params, minCount, dflt) ==
    LET ints == [i \in 1..Len(params) |-> Atoi(params[i])]
    IN  IF Len(ints) < minCount
        THEN ints \o [i \in 1..(minCount - Len(ints)) |-> dflt]
        ELSE ints

getInt(params, dflt) == getInts(params, 1, dflt)[1]

\* parseParams: the parameter bytes split at ';' (59), empty tokens dropped
RECURSIVE parseParamsFrom(_, _, _)
parseParamsFrom(bytes, paramBuff, params) ==
    LET completed == IF Len(paramBuff) > 0 THEN Append(params, paramBuff)
                     ELSE params
    IN  IF bytes = <<>> THEN completed
        ELSE IF Head(bytes) = 59
        THEN parseParamsFrom(Tail(bytes), <<>>, completed)
        ELSE parseParamsFrom(Tail(bytes), Append(paramBuff, Head(bytes)),
                             params)

parseParams(bytes) == parseParamsFrom(bytes, <<>>, <<>>)

getEraseParam(params) ==
    LET param == getInt(params, 0)
    IN  IF param < 0 \/ 3 < param THEN 0 ELSE param

(***************************************************************************)
(* The parser.  p is the AnsiParser: its state, its context and, in        *)
(* p.events, the calls it has made to the event handler.  p.count is the   *)
(* number of bytes handled so far: an event records in "at" the position   *)
(* of the byte that caused it, and a Print event records in "pos" the      *)
(* positions of the bytes it delivers.                                     *)
(***************************************************************************)
ParserStates ==
    {"Ground", "Escape", "CsiEntry", "CsiParam", "CsiIntermediate",
     "CsiIgnore", "OscString"}

CsiStates == {"CsiEntry", "CsiParam", "CsiIntermediate", "CsiIgnore"}

ANSI_ESCAPE_PRIMARY == 27
CSI_ENTRY == 155
ANSI_ESCAPE_SECONDARY == 91
ANSI_OSC_STRING_ENTRY == 93

Printables == (32..126) \cup (160..255)
Executors == (0..23) \cup {25} \cup (28..31)
ToGroundBytes == {24, 26, 156}
Intermediates == 32..47
CsiParams == 48..59
CsiPrivate == 60..63
CsiTerminators == 64..126
EscapeFinals == 48..126

\* no next state (a nil State)
NilState == "nil"

\* no error (a nil error)
NoError == "nil"

\* p.err is the error the parser returns.  p.failAt counts down the calls
\* of the event handler: the call made when failAt = 1 returns the error
\* p.failWith and has no effect.
NewParser ==
    [currState |-> "Ground", printBuffer |-> <<>>, printPos |-> <<>>,
     paramBuffer |-> <<>>, interBuffer |-> <<>>, currentChar |-> 0,
     count |-> 0, events |-> <<>>, err |-> NoError, failAt |-> 0,
     failWith |-> NoError]

\* a call of the event handler: the event e, or the handler's error
Call(p, e) ==
    IF p.failAt = 1 THEN [p EXCEPT !.err = p.failWith, !.failAt = 0]
    ELSE [p EXCEPT !.events = Append(@, e),
                   !.failAt = IF @ > 0 THEN @ - 1 ELSE 0]

Emit(p, op, args) ==
    Call(p, [op |-> op, args |-> args, at |-> p.count, pos |-> <<>>])

\* ap.print: the pending printable bytes go to the handler as one event;
\* they stay pending when the handler returns an error
ap_print(p) ==
    LET q == Call(p, [op |-> "Print", args |-> <<p.printBuffer>>,
                      at |-> p.count, pos |-> p.printPos])
    IN  IF p.printBuffer = <<>> THEN p
        ELSE IF q.err # NoError THEN q
        ELSE [q EXCEPT !.printBuffer = <<>>, !.printPos = <<>>]

ap_execute(p) == Emit(p, "Execute", <<p.currentChar>>)

collectParam(p) == [p EXCEPT !.paramBuffer = Append(@, p.currentChar)]

collectInter(p) == [p EXCEPT !.interBuffer = Append(@, p.currentChar)]

clearBuffers(p) == [p EXCEPT !.paramBuffer = <<>>, !.interBuffer = <<>>]

hDispatch(p, params) ==
    IF Len(params) = 1 /\ params[1] = <<63, 50, 53>>
    THEN Emit(p, "DECTCEM", <<TRUE>>) ELSE p

lDispatch(p, params) ==
    IF Len(params) = 1 /\ params[1] = <<63, 50, 53>>
    THEN Emit(p, "DECTCEM", <<FALSE>>) ELSE p

\* the terminator byte selects the event
csiDispatch(p) ==
    LET cmd == p.currentChar
        params == parseParams(p.paramBuffer)
    IN  CASE cmd = 65 -> Emit(p, "CUU", <<getInt(params, 1)>>)
          [] cmd = 66 -> Emit(p, "CUD", <<getInt(params, 1)>>)
          [] cmd = 67 -> Emit(p, "CUF", <<getInt(params, 1)>>)
          [] cmd = 68 -> Emit(p, "CUB", <<getInt(params, 1)>>)
          [] cmd = 69 -> Emit(p, "CNL", <<getInt(params, 1)>>)
          [] cmd = 70 -> Emit(p, "CPL", <<getInt(params, 1)>>)
          [] cmd = 71 -> Emit(p, "CHA", <<getInt(params, 1)>>)
          [] cmd = 72 -> Emit(p, "CUP", SubSeq(getInts(params, 2, 1), 1, 2))
          [] cmd = 74 -> Emit(p, "ED", <<getEraseParam(params)>>)
          [] cmd = 75 -> Emit(p, "EL", <<getEraseParam(params)>>)
          [] cmd = 76 -> Emit(p, "IL", <<getInt(params, 1)>>)
          [] cmd = 77 -> Emit(p, "DL", <<getInt(params, 1)>>)
          [] cmd = 83 -> Emit(p, "SU", <<getInt(params, 1)>>)
          [] cmd = 84 -> Emit(p, "SD", <<getInt(params, 1)>>)
          [] cmd = 99 -> Emit(p, "DA", <<params>>)
          [] cmd = 100 -> Emit(p, "VPA", <<getInt(params, 1)>>)
          [] cmd = 102 -> Emit(p, "HVP", SubSeq(getInts(params, 2, 1), 1, 2))
          [] cmd = 104 -> hDispatch(p, params)
          [] cmd = 108 -> lDispatch(p, params)
          [] cmd = 109 -> Emit(p, "SGR", <<getInts(params, 1, 0)>>)
          [] cmd = 114 -> Emit(p, "DECSTBM",
                               SubSeq(getInts(params, 2, 1), 1, 2))
          [] OTHER -> p

escDispatch(p) ==
    CASE p.currentChar = 77 -> Emit(p, "RI", <<>>)
      [] p.currentChar = 68 -> Emit(p, "IND", <<>>)
      [] OTHER -> p

\* what a state's Handle returns: the parser after its actions, and the
\* next state
Result(p, next) == [p |-> p, next |-> next]

\* the bytes handled the same way in any state
BaseState_Handle(b) ==
    CASE b = CSI_ENTRY -> "CsiEntry"
      [] b \in ToGroundBytes -> "Ground"
      [] b = ANSI_ESCAPE_PRIMARY -> "Escape"
      [] OTHER -> NilState

GroundState_Flush(p) == ap_print(p)

printBuffer_WriteByte(p, b) ==
    [p EXCEPT !.printBuffer = Append(@, b), !.printPos = Append(@, p.count)]

\* a Ground state whose executors are executed before the pending print
GroundExecuteFirst(p, b) ==
    LET q == [p EXCEPT !.currentChar = b]
        nextState == BaseState_Handle(b)
    IN  CASE nextState # NilState -> Result(q, nextState)
          [] nextState = NilState /\ b \in Printables ->
                Result(printBuffer_WriteByte(q, b), "Ground")
          [] nextState = NilState /\ b \in Executors \ Printables ->
                Result(GroundState_Flush(ap_execute(q)), "Ground")
          [] OTHER -> Result(q, "Ground")

\* a Ground state that handles its own bytes only
GroundOwnBytes(p, b) ==
    LET q == [p EXCEPT !.currentChar = b]
    IN  CASE b \in Printables ->
                Result(printBuffer_WriteByte(q, b), "Ground")
          [] b \in Executors \ Printables ->
                Result(ap_execute(GroundState_Flush(q)), "Ground")
          [] OTHER -> Result(q, "Ground")

\* "if err = gs.Flush(); err == nil { err = gs.parser.execute() }"
FlushThenExecute(p) ==
    LET flushed == GroundState_Flush(p)
    IN  IF flushed.err = NoError THEN ap_execute(flushed) ELSE flushed

\* a faulty Ground state: the executor is executed whatever the flush of
\* the pending print returned
GroundExecutesAnyway(p, b) ==
    LET q == [p EXCEPT !.currentChar = b]
        nextState == BaseState_Handle(b)
    IN  CASE nextState # NilState -> Result(q, nextState)
          [] nextState = NilState /\ b \in Printables ->
                Result(printBuffer_WriteByte(q, b), "Ground")
          [] nextState = NilState /\ b \in Executors \ Printables ->
                Result(ap_execute(GroundState_Flush(q)), "Ground")
          [] OTHER -> Result(q, "Ground")

GroundState_Handle(p, b) ==
    LET q == [p EXCEPT !.currentChar = b]
        nextState == BaseState_Handle(b)
    IN  CASE nextState # NilState -> Result(q, nextState)
          [] nextState = NilState /\ b \in Printables ->
                Result(printBuffer_WriteByte(q, b), "Ground")
          [] nextState = NilState /\ b \in Executors \ Printables ->
                Result(FlushThenExecute(q), "Ground")
          [] OTHER -> Result(q, "Ground")

\* the handling of a byte that is not an 'anywhere' byte, per state
EscapeBytes(p, b) ==
    CASE b = ANSI_ESCAPE_SECONDARY -> Result(p, "CsiEntry")
      [] b = ANSI_OSC_STRING_ENTRY -> Result(p, "OscString")
      [] b \in Intermediates -> Result(collectInter(p), "Escape")
      [] b \in EscapeFinals \ {ANSI_ESCAPE_SECONDARY, ANSI_OSC_STRING_ENTRY} ->
            Result(escDispatch(p), "Ground")
      [] b \in Executors -> Result(ap_execute(p), "Escape")
      [] OTHER -> Result(p, "Escape")

CsiEntryBytes(p, b) ==
    CASE b \in CsiParams \cup CsiPrivate -> Result(collectParam(p), "CsiParam")
      [] b \in Intermediates -> Result(collectInter(p), "CsiIntermediate")
      [] b \in CsiTerminators -> Result(csiDispatch(p), "Ground")
      [] b \in Executors -> Result(ap_execute(p), "CsiEntry")
      [] OTHER -> Result(p, "CsiEntry")

CsiParamBytes(p, b) ==
    CASE b \in CsiParams -> Result(collectParam(p), "CsiParam")
      [] b \in Intermediates -> Result(collectInter(p), "CsiIntermediate")
      [] b \in CsiTerminators -> Result(csiDispatch(p), "Ground")
      [] b \in CsiPrivate -> Result(p, "CsiIgnore")
      [] b \in Executors -> Result(ap_execute(p), "CsiParam")
      [] OTHER -> Result(p, "CsiParam")

CsiIntermediateBytes(p, b) ==
    CASE b \in Intermediates -> Result(collectInter(p), "CsiIntermediate")
      [] b \in CsiTerminators -> Result(csiDispatch(p), "Ground")
      [] b \in CsiParams \cup CsiPrivate -> Result(p, "CsiIgnore")
      [] b \in Executors -> Result(ap_execute(p), "CsiIntermediate")
      [] OTHER -> Result(p, "CsiIntermediate")

CsiIgnoreBytes(p, b) ==
    CASE b \in CsiTerminators -> Result(p, "Ground")
      [] b \in Executors -> Result(ap_execute(p), "CsiIgnore")
      [] OTHER -> Result(p, "CsiIgnore")

OscStringBytes(p, b) ==
    IF b = ANSI_BEL THEN Result(p, "Ground") ELSE Result(p, "OscString")

\* the Handle of a state other than Ground
OtherState_Handle(p, b) ==
    LET q == [p EXCEPT !.currentChar = b]
        nextState == BaseState_Handle(b)
    IN  CASE nextState # NilState -> Result(q, nextState)
          [] nextState = NilState /\ p.currState = "Escape" ->
                EscapeBytes(q, b)
          [] nextState = NilState /\ p.currState = "CsiEntry" ->
                CsiEntryBytes(q, b)
          [] nextState = NilState /\ p.currState = "CsiParam" ->
                CsiParamBytes(q, b)
          [] nextState = NilState /\ p.currState = "CsiIntermediate" ->
                CsiIntermediateBytes(q, b)
          [] nextState = NilState /\ p.currState = "CsiIgnore" ->
                CsiIgnoreBytes(q, b)
          [] OTHER -> OscStringBytes(q, b)

State_Handle(p, b) ==
    IF p.currState = "Ground" THEN GroundState_Handle(p, b)
    ELSE OtherState_Handle(p, b)

\* leaving Ground delivers the pending print; leaving the CSI states and
\* entering Escape or CsiEntry empty the parameter and intermediate buffers
State_Exit(p, newState) ==
    IF p.currState = "Ground" THEN GroundState_Flush(p)
    ELSE IF p.currState \in CsiStates /\ newState \notin CsiStates
    THEN clearBuffers(p)
    ELSE p

State_Enter(p, newState) ==
    IF newState \in {"Escape", "CsiEntry"} THEN clearBuffers(p) ELSE p

\* an error of the old state's exit leaves the parser in the old state
changeState(p, newState) ==
    LET exited == State_Exit(p, newState)
    IN  IF exited.err # NoError THEN exited
        ELSE [State_Enter(exited, newState) EXCEPT !.currState = newState]

\* an error of the state's Handle is returned before any change of state
ap_handle(p, b) ==
    LET r == State_Handle([p EXCEPT !.count = @ + 1], b)
    IN  IF r.p.err # NoError THEN r.p
        ELSE IF r.next # p.currState THEN changeState(r.p, r.next)
        ELSE r.p

\* the loop of Parse: it ends at the first error
RECURSIVE handleAll(_, _)
handleAll(p, bytes) ==
    IF bytes = <<>> \/ p.err # NoError THEN p
    ELSE handleAll(ap_handle(p, Head(bytes)), Tail(bytes))

\* a Parse that delivers the pending print at the end of the call
ParseThenPrint(p, bytes) == ap_print(handleAll(p, bytes))

\* Parse: the bytes are handled one by one; the pending print stays pending
Parse(p, bytes) == handleAll(p, bytes)

(***************************************************************************)
(* State: the handler's fields, the console, the parser and its input.     *)
(***************************************************************************)
VARIABLES
    sr,              \* h.sr: the stored scroll region
    buffer,          \* h.buffer: the pending output bytes
    wrapNext,        \* h.wrapNext
    drewMarginByte,  \* h.drewMarginByte
    inverted,        \* h.inverted
    attributes,      \* h.attributes
    marginByte,      \* h.marginByte
    curInfo,         \* h.curInfo: <<>> (nil) or <<info>>
    curPos,          \* h.curPos
    infoReset,       \* h.infoReset
    console,         \* the console behind h.fd and h.file
    out,             \* what has been printed, and what reached the file
    parser,          \* the AnsiParser
    fed              \* the chunks Parse has been called with, in order

vars == <<sr, buffer, wrapNext, drewMarginByte, inverted, attributes, marginByte,
          curInfo, curPos, infoReset, console, out, parser,
          fed>>

\* the world an event starts in: the current state, an empty call log, and
\* the backend call that is to fail (fail = 0: none)
World(fail) ==
    [sr |-> sr, buffer |-> buffer, wrapNext |-> wrapNext,
     drewMarginByte |-> drewMarginByte, inverted |-> inverted,
     attributes |-> attributes, marginByte |-> marginByte, curInfo |-> curInfo,
     curPos |-> curPos, infoReset |-> infoReset, console |-> console,
     calls |-> <<>>, pending |-> <<>>, failAt |-> fail, err |-> FALSE,
     handled |-> FALSE, panicked |-> FALSE]

\* nothing printed yet: printed counts the bytes printed, written is the
\* content of the file, painted the bytes painted by WriteConsoleOutput,
\* steps the number of events, flushed whether the last event was a Flush
NoOutput ==
    [printed |-> 0, written |-> <<>>, painted |-> {}, steps |-> 0,
     flushed |-> TRUE]

\* the state an event leaves behind; curPos is read only while curInfo is
\* not nil, so a stale curPos is recorded as the zero COORD
Stored(w) ==
    /\ sr' = w.sr
    /\ buffer' = w.buffer
    /\ wrapNext' = w.wrapNext
    /\ drewMarginByte' = w.drewMarginByte
    /\ inverted' = w.inverted
    /\ attributes' = w.attributes
    /\ marginByte' = w.marginByte
    /\ curInfo' = w.curInfo
    /\ curPos' = IF w.curInfo = NoInfo THEN COORD(0, 0) ELSE w.curPos
    /\ infoReset' = w.infoReset
    /\ console' = w.console

\* an event of the handler alone
Commit(w) == Stored(w) /\ UNCHANGED <<out, parser, fed>>

\* CreateWinEventHandler: infoReset is the console info at construction; the
\* handler reads its Attributes only, so infoReset keeps this field
DefaultAttributes == 7

\* the handler after CreateWinEventHandler on a console with the cursor in
\* any cell of the window, its scroll region one of regions
Created(regions) ==
    \E x \in 0..(SizeX - 1), winTop \in 0..ExtraRows, row \in 0..(WinRows - 1),
       region \in regions :
        LET info == ConsoleAt(x, winTop + row, winTop, DefaultAttributes)
        IN  /\ sr = region
            /\ buffer = <<>>
            /\ wrapNext = FALSE
            /\ drewMarginByte = FALSE
            /\ inverted = FALSE
            /\ attributes = info.Attributes
            /\ marginByte = 0
            /\ curInfo = NoInfo
            /\ curPos = COORD(0, 0)
            /\ infoReset = [Attributes |-> info.Attributes]
            /\ console = info
            /\ out = NoOutput
            /\ parser = NewParser
            /\ fed = <<>>

\* CreateWinEventHandler leaves sr at its zero value
Init == Created({scrollRegion(0, 0)})

(***************************************************************************)
(* The events.  The parameters the events are explored with are small      *)
(* sets that reach every cursor cell, scroll region and wrap state of the  *)
(* model; the properties quantify over their own parameter sets.           *)
(***************************************************************************)
FailAts == 0..MaxFail
MoveParams == {1, 2}
RowParams == {1, WinRows + 1}
ColParams == {1, SizeX}
EraseParams == 0..3
\* SGR parameter lists: the resets, and the lists that change the attributes
SGRParams == {<<>>, <<0>>}
SGRAttrParams == SGRParams \cup {<<7>>, <<31>>, <<0, 7>>, <<7, 0>>}
TopParams == {1, 2}
BottomParams == {2, 9}

\* the bytes a successful event appends to the buffer stay within MaxBuf
PrintEvent(fails) ==
    \E b \in PrintableBytes, fail \in fails :
        /\ Len(buffer) + (IF wrapNext THEN 2 ELSE 1) <= MaxBuf
        /\ Commit(h_Print(World(fail), b))

ExecuteEvent(fails) ==
    \E b \in ExecuteBytes, fail \in fails :
        /\ Len(buffer) + 1 <= MaxBuf
        /\ Commit(h_Execute(World(fail), b))

CUUEvent(fails) ==
    \E n \in MoveParams, fail \in fails :
        /\ Commit(h_CUU(World(fail), n))

CUDEvent(fails) ==
    \E n \in MoveParams, fail \in fails :
        /\ Commit(h_CUD(World(fail), n))

CUFEvent(fails) ==
    \E n \in MoveParams, fail \in fails :
        /\ Commit(h_CUF(World(fail), n))

CUBEvent(fails) ==
    \E n \in MoveParams, fail \in fails :
        /\ Commit(h_CUB(World(fail), n))

CNLEvent(fails) ==
    \E n \in MoveParams, fail \in fails :
        /\ Commit(h_CNL(World(fail), n))

CPLEvent(fails) ==
    \E n \in MoveParams, fail \in fails :
        /\ Commit(h_CPL(World(fail), n))

CHAEvent(fails) ==
    \E n \in ColParams, fail \in fails :
        /\ Commit(h_CHA(World(fail), n))

VPAEvent(fails) ==
    \E n \in RowParams, fail \in fails :
        /\ Commit(h_VPA(World(fail), n))

CUPEvent(fails) ==
    \E r \in RowParams, c \in ColParams, fail \in fails :
        /\ Commit(h_CUP(World(fail), r, c))

HVPEvent(fails) ==
    \E r \in RowParams, c \in ColParams, fail \in fails :
        /\ Commit(h_HVP(World(fail), r, c))

DECTCEMEvent(fails) ==
    \E v \in BOOLEAN, fail \in fails :
        /\ Commit(h_DECTCEM(World(fail), v))

EDEvent(fails) ==
    \E n \in EraseParams, fail \in fails :
        /\ Commit(h_ED(World(fail), n))

ELEvent(fails) ==
    \E n \in EraseParams, fail \in fails :
        /\ Commit(h_EL(World(fail), n))

ILEvent(fails) ==
    \E n \in MoveParams, fail \in fails :
        /\ Commit(h_IL(World(fail), n))

DLEvent(fails) ==
    \E n \in MoveParams, fail \in fails :
        /\ Commit(h_DL(World(fail), n))

SGREvent(params, fails) ==
    \E p \in params, fail \in fails :
        /\ Commit(h_SGR(World(fail), p))

SUEvent(fails) ==
    \E n \in MoveParams, fail \in fails :
        /\ Commit(h_SU(World(fail), n))

SDEvent(fails) ==
    \E n \in MoveParams, fail \in fails :
        /\ Commit(h_SD(World(fail), n))

DAEvent ==
    /\ Commit(h_DA(World(0), <<>>))

DECSTBMEvent(fails) ==
    \E t \in TopParams, b \in BottomParams, fail \in fails :
        /\ Commit(h_DECSTBM(World(fail), t, b))

RIEvent(fails) ==
    \E fail \in fails :
        /\ Commit(h_RI(World(fail)))

INDEvent(fails) ==
    \E fail \in fails :
        /\ Len(buffer) + 1 <= MaxBuf
        /\ Commit(h_IND(World(fail)))

FlushEvent(fails) ==
    \E fail \in fails :
        /\ Commit(h_Flush(World(fail)))

\* the events, with the backend calls in fails made to fail (0: none)
Events(fails) ==
    \/ PrintEvent(fails)
    \/ ExecuteEvent(fails)
    \/ CUUEvent(fails)
    \/ CUDEvent(fails)
    \/ CUFEvent(fails)
    \/ CUBEvent(fails)
    \/ CNLEvent(fails)
    \/ CPLEvent(fails)
    \/ CHAEvent(fails)
    \/ VPAEvent(fails)
    \/ CUPEvent(fails)
    \/ HVPEvent(fails)
    \/ DECTCEMEvent(fails)
    \/ EDEvent(fails)
    \/ ELEvent(fails)
    \/ ILEvent(fails)
    \/ DLEvent(fails)
    \/ SGREvent(SGRParams, fails)
    \/ SUEvent(fails)
    \/ SDEvent(fails)
    \/ DAEvent
    \/ DECSTBMEvent(fails)
    \/ RIEvent(fails)
    \/ INDEvent(fails)
    \/ FlushEvent(fails)

Next == Events(FailAts)

Spec == Init /\ [][Next]_vars

\* the handler over a backend that does not fail
NextOk == Events({0})

SpecOk == Init /\ [][NextOk]_vars

\* the attribute state: SGR with every parameter list, between prints,
\* flushes and cursor moves
NextSGR ==
    \/ SGREvent(SGRAttrParams, FailAts)
    \/ PrintEvent(FailAts)
    \/ FlushEvent(FailAts)
    \/ CUPEvent(FailAts)

SpecSGR == Init /\ [][NextSGR]_vars

\* effectiveSr over every stored scroll region: sr holds any two of the 16-bit
\* values below (DECSTBM stores SHORT(top - 1) and SHORT(bottom - 1) for any
\* two integers), and the events that consult effectiveSr run
SrValues == {ShortMin, -2, -1, 0, 1, 2, 3, ShortMax}

InitSr == Created({scrollRegion(t, b) : t \in SrValues, b \in SrValues})

NextSr ==
    \/ PrintEvent({0})
    \/ ExecuteEvent({0})
    \/ INDEvent({0})
    \/ RIEvent({0})
    \/ FlushEvent({0})

SpecSr == InitSr /\ [][NextSr]_vars

(***************************************************************************)
(* The parser alone: Parse is called with chunk after chunk of a byte      *)
(* stream of at most MaxStream bytes, the handler records the events.      *)
(***************************************************************************)
MaxStream == 5

\* LF, CAN, ESC, space, '1', 'A', '[', ']'
ParseBytes == {10, 24, 27, 32, 49, 65, 91, 93}

RECURSIVE Concat(_)
Concat(chunks) ==
    IF chunks = <<>> THEN <<>> ELSE Head(chunks) \o Concat(Tail(chunks))

\* the byte stream fed so far
Stream == Concat(fed)

ChunksOf(n) == UNION {[1..k -> ParseBytes] : k \in 1..n}

ParseEvent ==
    \E chunk \in ChunksOf(MaxStream - Len(Stream)) :
        /\ parser' = Parse(parser, chunk)
        /\ fed' = Append(fed, chunk)
        /\ UNCHANGED <<sr, buffer, wrapNext, drewMarginByte, inverted,
                       attributes, marginByte, curInfo, curPos, infoReset,
                       console, out>>

InitParser == Init /\ console = ConsoleAt(0, 0, 0, DefaultAttributes)

NextParser == ParseEvent

SpecParser == InitParser /\ [][NextParser]_vars

(***************************************************************************)
(* The parser fed one byte per call.                                       *)
(***************************************************************************)
ParseByteEvent ==
    \E b \in ParseBytes :
        /\ Len(Stream) < MaxStream
        /\ parser' = Parse(parser, <<b>>)
        /\ fed' = Append(fed, <<b>>)
        /\ UNCHANGED <<sr, buffer, wrapNext, drewMarginByte, inverted,
                       attributes, marginByte, curInfo, curPos, infoReset,
                       console, out>>

NextByte == ParseByteEvent

SpecByte == InitParser /\ [][NextByte]_vars

(***************************************************************************)
(* The parser fed CSI sequences: the bytes are CSI, the parameter bytes    *)
(* '1', '5' and ';', and the terminators 'H' (CUP) and 'm' (SGR).          *)
(***************************************************************************)
CsiBytes == {CSI_ENTRY, 49, 53, 59, 72, 109}

CsiParseEvent ==
    \E n \in 1..(MaxStream - Len(Stream)) :
        \E chunk \in [1..n -> CsiBytes] :
            /\ parser' = Parse(parser, chunk)
            /\ fed' = Append(fed, chunk)
            /\ UNCHANGED <<sr, buffer, wrapNext, drewMarginByte, inverted,
                           attributes, marginByte, curInfo, curPos, infoReset,
                           console, out>>

NextCsi == CsiParseEvent

SpecCsi == InitParser /\ [][NextCsi]_vars

(***************************************************************************)
(* Print, Execute(LF) and Flush on a backend that does not fail, with the  *)
(* record of what was printed and of what reached the file.  The k-th      *)
(* printed byte is 96 + k, so that every printed byte is told from the     *)
(* others in the file.                                                     *)
(***************************************************************************)
MaxSteps == 6

\* the bytes the calls of an event wrote to the file, in order
RECURSIVE Written(_)
Written(calls) ==
    IF calls = <<>> THEN <<>>
    ELSE (IF Head(calls).op = "Write" THEN Head(calls).bytes ELSE <<>>)
         \o Written(Tail(calls))

\* the bytes the calls of an event painted with WriteConsoleOutput
Painted(calls) ==
    {calls[i].charInfo.UnicodeChar :
        i \in {k \in 1..Len(calls) : calls[k].op = "WriteConsoleOutput"}}

\* the record after an event that printed the count bytes and made the calls
Output(w, count, isFlush) ==
    [printed |-> out.printed + count,
     written |-> out.written \o Written(w.calls),
     painted |-> out.painted \cup Painted(w.calls),
     steps |-> out.steps + 1,
     flushed |-> isFlush]

TracedPrint ==
    /\ out.steps < MaxSteps
    /\ LET w == h_Print(World(0), 97 + out.printed)
       IN  Stored(w) /\ out' = Output(w, 1, FALSE)
    /\ UNCHANGED <<parser, fed>>

TracedLF ==
    /\ out.steps < MaxSteps
    /\ LET w == h_Execute(World(0), ANSI_LINE_FEED)
       IN  Stored(w) /\ out' = Output(w, 0, FALSE)
    /\ UNCHANGED <<parser, fed>>

TracedFlush ==
    /\ out.steps < MaxSteps
    /\ LET w == h_Flush(World(0))
       IN  Stored(w) /\ out' = Output(w, 0, TRUE)
    /\ UNCHANGED <<parser, fed>>

\* the handler with the default scroll region or with one set by DECSTBM
InitPrint == Created({scrollRegion(0, 0), scrollRegion(0, 1)})

NextPrint == TracedPrint \/ TracedLF \/ TracedFlush

SpecPrint == InitPrint /\ [][NextPrint]_vars

(***************************************************************************)
(* Properties of the handler.  A property about an event is stated over    *)
(* every reachable state the event can start in: the event is applied to   *)
(* World(fail) and its result, the calls it made included, is examined.    *)
(***************************************************************************)
\* the cursor and the window as the handler sees them: from the cache while
\* the cache is valid, from the console otherwise
Cursor == IF curInfo = NoInfo THEN console.CursorPosition ELSE curPos

Window == IF curInfo = NoInfo THEN console.Window ELSE curInfo[1].Window

\* C1: after any Flush that returns success, from any reachable state, the
\* pending output buffer is empty, or holds exactly one byte that equals
\* marginByte while wrapNext is true.
C1_FlushLeavesBuffer ==
    \A fail \in FailAts :
        LET w == h_Flush(World(fail))
        IN  ~w.err =>
                \/ w.buffer = <<>>
                \/ Len(w.buffer) = 1 /\ w.buffer[1] = w.marginByte /\ w.wrapNext

\* a Flush that writes two pending bytes and paints the margin byte
C1_Witness ==
    /\ Len(buffer) = 2 /\ wrapNext /\ ~drewMarginByte
    /\ LET w == h_Flush(World(0))
       IN  ~w.err /\ Len(w.calls) = 2 /\ w.buffer = <<>> /\ w.drewMarginByte

\* parameters of the cursor-motion commands the properties are stated over
MotionParams == {0, 1, 2, 32767, 65536}

\* the results of the ten cursor-motion commands in the current state
CursorMotions(fail) ==
    LET w == World(fail)
    IN  UNION {{h_CUU(w, n), h_CUD(w, n), h_CUF(w, n), h_CUB(w, n), h_CNL(w, n),
                h_CPL(w, n), h_CHA(w, n), h_VPA(w, n)} : n \in MotionParams}
        \cup {h_CUP(w, r, c) : r \in MotionParams, c \in MotionParams}
        \cup {h_HVP(w, r, c) : r \in MotionParams, c \in MotionParams}

\* C2: after any successfully completed cursor-motion command (CUU, CUD, CUF,
\* CUB, CNL, CPL, CHA, VPA, CUP, HVP), from any reachable state, a pending
\* deferred wrap included, wrapNext is false and drewMarginByte is false.
C2_MotionClearsWrap ==
    \A fail \in FailAts :
        \A w \in CursorMotions(fail) :
            ~w.err => ~w.wrapNext /\ ~w.drewMarginByte

\* a pending wrap whose margin byte is painted, and commands that succeed
C2_Witness ==
    /\ wrapNext /\ drewMarginByte
    /\ \E w \in CursorMotions(0) : ~w.err /\ ~w.wrapNext
    /\ ~h_VPA(World(0), 1).err

\* C8: Print(b) with no pending wrap and the cursor in the last column
\* (x = Size.X - 1) sets wrapNext, sets marginByte to b, leaves the cached
\* cursor position unchanged and appends nothing to the buffer.
C8_PrintAtMargin ==
    \A b \in PrintableBytes, fail \in FailAts :
        (~wrapNext /\ Cursor.X = console.Size.X - 1) =>
            LET w == h_Print(World(fail), b)
            IN  ~w.err =>
                    /\ w.wrapNext
                    /\ w.marginByte = b
                    /\ w.curInfo # NoInfo
                    /\ w.curPos = Cursor
                    /\ w.buffer = buffer

\* the cursor reached the last column by a queued byte, no wrap is pending
C8_Witness ==
    /\ ~wrapNext /\ curInfo # NoInfo /\ buffer # <<>>
    /\ curPos.X = console.Size.X - 1
    /\ h_Print(World(0), 98).wrapNext

\* the effective scroll region in the current state
EffectiveRegion == effectiveSr(World(0), Window)

\* the whole window as a scroll region
WindowRegion == scrollRegion(Window.Top, Window.Bottom)

\* Print(b) then Flush, from a pending wrap with the cursor in row y: the
\* file receives the pending bytes, the margin byte and then b, the cursor
\* ends in column 1 of row y + 1, the buffer is empty and no wrap is pending
WrapsToNextRow(b) ==
    LET w == h_Print(World(0), b)
        f == h_Flush(w)
        next == COORD(1, Cursor.Y + 1)
    IN  /\ ~w.err /\ ~f.err
        /\ Written(w.calls) \o w.buffer = buffer \o <<marginByte, b>>
        /\ Written(w.calls) \o Written(f.calls) = buffer \o <<marginByte, b>>
        /\ w.curInfo # NoInfo => w.curPos = next
        /\ f.console.CursorPosition = next
        /\ f.buffer = <<>>
        /\ ~f.wrapNext

C10_LFScrollsRegion ==
    (EffectiveRegion # WindowRegion /\ Cursor.Y = EffectiveRegion.bottom) =>
        LET w == h_Execute(World(0), ANSI_LINE_FEED)
            n == Len(w.calls)
            sc == w.calls[n - 1]
            reg == EffectiveRegion
        IN  /\ ~w.err
            /\ n >= 2
            /\ \A i \in 1..(n - 2) : w.calls[i].op \in {"Write", "WriteConsoleOutput"}
            /\ Written(w.calls) = buffer
            /\ w.buffer = <<>>
            /\ sc.op = "ScrollConsoleScreenBuffer"
            /\ \A r \in reg.top..(reg.bottom - 1) :
                   RowAfterScroll(sc, console.Size, r) = {r + 1}
            /\ RowAfterScroll(sc, console.Size, reg.bottom) = {}
            /\ \A r \in Window.Top..Window.Bottom :
                   (r < reg.top \/ r > reg.bottom) =>
                       RowAfterScroll(sc, console.Size, r) = {r}
            /\ w.calls[n] = [op |-> "SetConsoleCursorPosition",
                             pos |-> COORD(0, Cursor.Y)]
            /\ w.console.CursorPosition = COORD(0, Cursor.Y)

\* a custom region, the cursor on its bottom row, bytes pending: Execute(LF)
\* writes them, scrolls and sets the cursor
C10_Witness ==
    /\ EffectiveRegion # WindowRegion /\ Cursor.Y = EffectiveRegion.bottom
    /\ buffer # <<>>
    /\ LET w == h_Execute(World(0), ANSI_LINE_FEED)
       IN  /\ ~w.err /\ Len(w.calls) = 3
           /\ w.calls[1].op = "Write"
           /\ w.calls[2].op = "ScrollConsoleScreenBuffer"
           /\ w.calls[3].op = "SetConsoleCursorPosition"

\* SGR 0 as it reaches the handler: the empty list, the single parameter 0,
\* and what getInts makes of the parameter strings "" (none) and "0"
ResetLists == {<<>>, <<0>>, getInts(<<>>, 1, 0), getInts(<<<<48>>>>, 1, 0)}

\* C3: from any attribute state (any attributes word, inverted true or
\* false), SGR 0 - as the empty parameter list or as the single parameter 0 -
\* leaves attributes equal to infoReset.Attributes and inverted false.
C3_SGRResetRestores ==
    \A p \in ResetLists, fail \in FailAts :
        LET w == h_SGR(World(fail), p)
        IN  ~w.err => w.attributes = infoReset.Attributes /\ ~w.inverted

\* reverse video and a colour are set, and SGR 0 succeeds
C3_Witness ==
    /\ inverted /\ attributes # infoReset.Attributes
    /\ \A p \in ResetLists : ~h_SGR(World(0), p).err

\* what SGR 0 does: both forms restore the attributes; the empty list clears
\* inverted, the single parameter 0 leaves inverted as it was
SGRResetEffect ==
    \A p \in ResetLists, fail \in FailAts :
        LET w == h_SGR(World(fail), p)
        IN  ~w.err =>
                /\ w.attributes = infoReset.Attributes
                /\ w.inverted = (IF p = <<>> THEN FALSE ELSE inverted)

\* C4: for every stored sr (any 16-bit values, additions that overflow
\* included) and every window, effectiveSr returns a region with
\* window.Top <= top <= bottom <= window.Bottom.
C4_EffectiveSrInWindow ==
    \A window \in {console.Window, Window} :
        LET region == effectiveSr(World(0), window)
        IN  /\ window.Top <= region.top
            /\ region.top <= region.bottom
            /\ region.bottom <= window.Bottom

\* window.Top + sr.bottom overflows 16 bits, sr.top is above the window: the
\* region is the whole window
C4_Witness ==
    /\ sr.top = -1 /\ sr.bottom = ShortMax /\ console.Window.Top = 1
    /\ SHORT(console.Window.Top + sr.bottom) = ShortMin
    /\ effectiveSr(World(0), console.Window) =
           scrollRegion(console.Window.Top, console.Window.Bottom)
    /\ buffer # <<>>

NewEvents(q) == SubSeq(q.events, Len(parser.events) + 1, Len(q.events))

\* C6: in every state other than Ground, CAN and SUB move the parser to
\* Ground with no call of the handler and ESC moves it to Escape; in Ground
\* CAN, SUB and ESC are handled the same way before Ground's own handling:
\* they are neither buffered for print nor executed.
C6_AnywhereBytes ==
    /\ \A b \in {24, 26} :
           LET q == ap_handle(parser, b)
           IN  /\ q.currState = "Ground"
               /\ q.events = parser.events
               /\ q.printBuffer = parser.printBuffer
    /\ LET q == ap_handle(parser, ANSI_ESCAPE_PRIMARY)
       IN  /\ q.currState = "Escape"
           /\ q.printBuffer = <<>>
           /\ NewEvents(q) =
                  IF parser.printBuffer = <<>> THEN <<>>
                  ELSE <<[op |-> "Print", args |-> <<parser.printBuffer>>,
                          at |-> q.count, pos |-> parser.printPos]>>

\* the parser as it was before the last byte of the stream
BeforeLastByte == Parse(NewParser, SubSeq(Stream, 1, Len(Stream) - 1))

\* a CAN has ended a CSI sequence with a parameter: no event, Ground
C6_Witness ==
    /\ Len(Stream) >= 2
    /\ Stream[Len(Stream)] = 24
    /\ BeforeLastByte.currState = "CsiParam"
    /\ BeforeLastByte.paramBuffer # <<>>
    /\ parser.currState = "Ground"
    /\ parser.events = <<>>

\* byte n of the stream is a printable received in Ground
ReceivedInGround(n) ==
    /\ Stream[n] \in Printables
    /\ Parse(NewParser, SubSeq(Stream, 1, n - 1)).currState = "Ground"

\* event e is a Print event that delivers byte n of the stream
Delivers(e, n) ==
    /\ e.op = "Print"
    /\ \E m \in 1..Len(e.pos) : e.pos[m] = n /\ e.args[1][m] = Stream[n]

\* C7: the events are in the order of the bytes that caused them; every
\* printable received in Ground before an executor byte is delivered in a
\* Print event before that byte's Execute event; no Print event delivers a
\* byte that precedes the byte that caused an earlier event.
C7_EventsInByteOrder ==
    LET ev == parser.events
    IN  /\ \A i, j \in 1..Len(ev) : i < j => ev[i].at <= ev[j].at
        /\ \A k \in 1..Len(ev) :
               ev[k].op = "Execute" =>
                   /\ Stream[ev[k].at] = ev[k].args[1]
                   /\ \A n \in 1..(ev[k].at - 1) :
                          ReceivedInGround(n) =>
                              \E i \in 1..(k - 1) : Delivers(ev[i], n)
        /\ \A i, j \in 1..Len(ev) :
               i < j /\ ev[j].op = "Print" =>
                   \A m \in 1..Len(ev[j].pos) : ev[i].at < ev[j].pos[m]

\* a Print event, the Execute event of the executor that followed its
\* bytes, and a later Print event
C7_Witness ==
    \E k \in 2..Len(parser.events) :
        /\ parser.events[k].op = "Execute"
        /\ parser.events[k - 1].op = "Print"
        /\ parser.events[k - 1].at = parser.events[k].at
        /\ \E j \in (k + 1)..Len(parser.events) : parser.events[j].op = "Print"

(***************************************************************************)
(* Properties of the commands.                                             *)
(***************************************************************************)
\* rows and columns a CSI sequence can carry: small ones, ones beyond the
\* window, and ones whose 16-bit conversion wraps around
CUPParams == {1, 2, SizeX, SizeX + 1, WinRows + 1, 32768, 32769, 65537}

\* n clamped into lo..hi
Clamp(n, lo, hi) == IF n < lo THEN lo ELSE IF n > hi THEN hi ELSE n

\* the cursor CUP(row, col) is to leave in the console con, whose window is
\* the one the command found after its Flush
CUPTarget(con, row, col) ==
    COORD(Clamp(col - 1, 0, con.Size.X - 1),
          Clamp(con.Window.Top + row - 1, con.Window.Top, con.Window.Bottom))

\* C11: for every row >= 1 and col >= 1, a CUP(row, col) that succeeds leaves
\* the console cursor at column clamp(col - 1, 0, size.x - 1) and row
\* clamp(window.top + row - 1, window.top, window.bottom).
C11_CUPClamps ==
    \A row \in CUPParams, col \in CUPParams, fail \in FailAts :
        LET w == h_CUP(World(fail), row, col)
        IN  ~w.err => w.console.CursorPosition = CUPTarget(w.console, row, col)

\* the same for the rows and columns whose 16-bit arithmetic does not wrap
CUPClampsShort ==
    \A row \in CUPParams, col \in CUPParams, fail \in FailAts :
        LET w == h_CUP(World(fail), row, col)
        IN  (~w.err /\ col - 1 <= ShortMax
                /\ w.console.Window.Top + row - 1 <= ShortMax) =>
                w.console.CursorPosition = CUPTarget(w.console, row, col)

\* a window below the top of the buffer with the cursor off its bottom row:
\* CUP(32769, 1) is to reach the bottom row and reaches the top row
C11_Witness ==
    /\ console.Window.Top > 0
    /\ console.CursorPosition.Y < console.Window.Bottom
    /\ h_CUP(World(0), 32769, 1).console.CursorPosition =
           COORD(0, console.Window.Top)
    /\ CUPTarget(console, 32769, 1) = COORD(0, console.Window.Bottom)
    /\ buffer = <<>>

\* the console as the command finds it: after the Flush of the pending bytes
Flushed == h_Flush(World(0)).console

\* the clearRange calls of an event
RECURSIVE ClearCalls(_)
ClearCalls(calls) ==
    IF calls = <<>> THEN <<>>
    ELSE (IF Head(calls).op = "clearRange" THEN <<Head(calls)>> ELSE <<>>)
         \o ClearCalls(Tail(calls))

\* the cells of the rows of the window of con
WindowCells(con) ==
    {c \in Cells(con.Size) : con.Window.Top <= c.Y /\ c.Y <= con.Window.Bottom}

\* ED(param), if it succeeds, clears exactly the cells region with the
\* current attributes and leaves the cursor at cursor
EDClears(param, fail, region, cursor) ==
    LET w == h_ED(World(fail), param)
        clears == ClearCalls(w.calls)
    IN  ~w.err =>
            /\ Len(clears) = 1
            /\ clears[1].attributes = attributes
            /\ ClearedCells(clears[1], Flushed.Size) = region
            /\ w.console.CursorPosition = cursor

\* ED(0) clears from the cursor to the end of the screen, ED(1) from the
\* start of the screen to the cursor; the cursor stays
EDToCursor(fail) ==
    LET pos == Flushed.CursorPosition
        size == Flushed.Size
    IN  /\ EDClears(0, fail, {c \in Cells(size) : InReadingOrder(pos, c)}, pos)
        /\ EDClears(1, fail, {c \in Cells(size) : InReadingOrder(c, pos)}, pos)

\* C12 as stated: ED(2) and ED(3) clear exactly the cells of the rows
\* window.top..window.bottom with the current attributes and move the cursor
\* to (0,0); ED(0) and ED(1) clear cursor-to-end-of-screen and
\* start-of-screen-to-cursor and do not move the cursor.
C12_AsStated ==
    \A fail \in FailAts :
        /\ EDClears(2, fail, WindowCells(Flushed), COORD(0, 0))
        /\ EDClears(3, fail, WindowCells(Flushed), COORD(0, 0))
        /\ EDToCursor(fail)

\* C12, amended: ED(2) and ED(3) clear every cell of the screen buffer, the
\* rows outside the window included, with the current attributes and move
\* the cursor to (0,0) of the screen buffer; ED(0) clears from the cursor to
\* the end of the screen buffer, ED(1) from its start to the cursor, and
\* neither moves the cursor.
C12_EDClearsBuffer ==
    \A fail \in FailAts :
        /\ EDClears(2, fail, Cells(Flushed.Size), COORD(0, 0))
        /\ EDClears(3, fail, Cells(Flushed.Size), COORD(0, 0))
        /\ EDToCursor(fail)

\* pending bytes, a window below the top of the buffer, the cursor away from
\* (0,0): ED(2) clears more than the window and homes the cursor
C12_Witness ==
    /\ buffer # <<>>
    /\ Flushed.Window.Top > 0
    /\ Flushed.CursorPosition.X > 0
    /\ LET w == h_ED(World(0), 2)
       IN  /\ ~w.err
           /\ w.console.CursorPosition = COORD(0, 0)
           /\ ClearedCells(ClearCalls(w.calls)[1], Flushed.Size)
                  # WindowCells(Flushed)

(***************************************************************************)
(* Properties of the CSI parameter decoding.                               *)
(***************************************************************************)
\* the tokens of a parameter buffer: a token ends at a ';' or at the end of
\* the buffer, so ";5" has the tokens "" and "5"
RECURSIVE TokensFrom(_, _)
TokensFrom(bytes, token) ==
    IF bytes = <<>> THEN (IF token = <<>> THEN <<>> ELSE <<token>>)
    ELSE IF Head(bytes) = 59 THEN <<token>> \o TokensFrom(Tail(bytes), <<>>)
    ELSE TokensFrom(Tail(bytes), Append(token, Head(bytes)))

Tokens(bytes) == TokensFrom(bytes, <<>>)

\* the parameters the tokens determine: a digit token its value, an empty
\* token the default, the missing ones up to minCount the default
Decoded(bytes, minCount, dflt) ==
    LET toks == Tokens(bytes)
        n == IF Len(toks) < minCount THEN minCount ELSE Len(toks)
    IN  [i \in 1..n |-> IF i <= Len(toks) /\ toks[i] # <<>>
                        THEN Decimal(toks[i]) ELSE dflt]

\* the parameter bytes that precede byte k of the stream
RECURSIVE ParamsBefore(_)
ParamsBefore(k) ==
    IF k > 1 /\ Stream[k - 1] \in CsiParams
    THEN Append(ParamsBefore(k - 1), Stream[k - 1]) ELSE <<>>

\* event e carries the parameters its parameter buffer determines
DecodedAsTokens(e) ==
    /\ e.op = "CUP" => e.args = SubSeq(Decoded(ParamsBefore(e.at), 2, 1), 1, 2)
    /\ e.op = "SGR" => e.args = <<Decoded(ParamsBefore(e.at), 1, 0)>>

\* C13: for every CSI parameter buffer the i-th ';'-separated token
\* determines the i-th parameter of the event: a digit token its base-10
\* value, an empty token the command's default at that position, and the
\* missing trailing parameters up to the minimum count the default.
C13_TokensDecoded ==
    \A i \in 1..Len(parser.events) : DecodedAsTokens(parser.events[i])

\* the same for the parameter buffers without an empty token
TokensDecodedNoEmpty ==
    \A i \in 1..Len(parser.events) :
        (\A t \in 1..Len(Tokens(ParamsBefore(parser.events[i].at))) :
             Tokens(ParamsBefore(parser.events[i].at))[t] # <<>>)
            => DecodedAsTokens(parser.events[i])

\* CSI ;5 H was dispatched: the tokens are "" and "5", the event is CUP(5, 1)
C13_Witness ==
    \E i \in 1..Len(parser.events) :
        /\ parser.events[i].op = "CUP"
        /\ ParamsBefore(parser.events[i].at) = <<59, 53>>
        /\ parser.events[i].args = <<5, 1>>
        /\ Decoded(<<59, 53>>, 2, 1) = <<1, 5>>

(***************************************************************************)
(* Properties of the output.                                               *)
(***************************************************************************)
\* the bytes printed so far
PrintedBytes == {96 + k : k \in 1..out.printed}

\* the positions of the file that hold a printed byte, not a line feed
GlyphsWritten == {i \in 1..Len(out.written) : out.written[i] >= 32}

\* C14: over Print and Execute(LF) events without backend errors, every
\* printed byte is in the file at most once and in the order it was printed;
\* after a final Flush a printed byte is missing from the file only if it is
\* a margin byte that was painted with WriteConsoleOutput: none is lost.
C14_PrintedReachFile ==
    /\ \A i \in GlyphsWritten : out.written[i] \in PrintedBytes
    /\ \A i, j \in GlyphsWritten : i < j => out.written[i] < out.written[j]
    /\ out.painted \subseteq PrintedBytes
    /\ out.flushed =>
           \A b \in PrintedBytes :
               \/ \E i \in GlyphsWritten : out.written[i] = b
               \/ b \in out.painted

\* two bytes, a line feed, two bytes and the final Flush: the file holds
\* exactly these five bytes, nothing was painted
C14_Witness ==
    /\ out.flushed
    /\ out.printed = 4
    /\ out.written = <<97, 98, ANSI_LINE_FEED, 99, 100>>
    /\ out.painted = {}

\* a margin byte whose wrap a line feed cleared: painted, not in the file
MarginByteDropped ==
    /\ out.flushed
    /\ out.printed = 2
    /\ out.written = <<97, ANSI_LINE_FEED>>
    /\ out.painted = {98}

(***************************************************************************)
(* Properties of the parser's errors.                                      *)
(***************************************************************************)
\* the errors a handler returns
HandlerErrors == {"E1", "E2"}

\* the parser p with the n-th call of the handler returning the error e
Failing(p, n, e) == [p EXCEPT !.failAt = n, !.failWith = e]

\* C15: whatever the byte, the parser returns no error while the handler
\* returns none; in Ground with a pending print, when the handler returns an
\* error to the flush an executor byte causes, that error is what the parser
\* returns, no Execute event is dispatched for the byte, and the parser stays
\* in Ground.
C15_ParserErrors ==
    /\ \A b \in 0..255 : ap_handle(parser, b).err = NoError
    /\ (parser.currState = "Ground" /\ parser.printBuffer # <<>>) =>
           \A b \in Executors, e \in HandlerErrors :
               LET q == ap_handle(Failing(parser, 1, e), b)
               IN  /\ q.err = e
                   /\ q.events = parser.events
                   /\ q.currState = "Ground"

\* Ground with two pending printables after a dispatched CSI sequence: the
\* flush a line feed causes fails with E1, the parser returns E1
C15_Witness ==
    /\ parser.currState = "Ground"
    /\ Len(parser.printBuffer) = 2
    /\ parser.events # <<>>
    /\ ap_handle(Failing(parser, 1, "E1"), ANSI_LINE_FEED).err = "E1"
    /\ ap_handle(parser, ANSI_LINE_FEED).err = NoError

(***************************************************************************)
(* Properties of the scrolling.                                            *)
(***************************************************************************)
\* the ScrollConsoleScreenBuffer calls of an event
RECURSIVE ScrollCalls(_)
ScrollCalls(calls) ==
    IF calls = <<>> THEN <<>>
    ELSE (IF Head(calls).op = "ScrollConsoleScreenBuffer" THEN <<Head(calls)>>
          ELSE <<>>)
         \o ScrollCalls(Tail(calls))

ScrollCounts == {1, 2}

\* the results of the events that scroll with scrollUp or scrollDown: LF and
\* IND at the region bottom, RI at the region top, IL and DL
RegionScrolls(fail) ==
    LET w == World(fail)
    IN  {h_Execute(w, ANSI_LINE_FEED), h_IND(w), h_RI(w)}
        \cup {h_IL(w, n) : n \in ScrollCounts}
        \cup {h_DL(w, n) : n \in ScrollCounts}

\* C16: scrollUp and scrollDown operate on effectiveSr(window): whatever the
\* stored scroll region is, the region they pass to ScrollConsoleScreenBuffer
\* as the one scrolled (the clip rectangle) is the effective region, whose
\* rows lie within window.Top..window.Bottom.
C16_ScrollsEffectiveRegion ==
    \A fail \in FailAts :
        \A w \in RegionScrolls(fail) :
            \A i \in 1..Len(ScrollCalls(w.calls)) :
                LET clip == ScrollCalls(w.calls)[i].clipRegion
                    window == w.console.Window
                IN  /\ window.Top <= clip.Top
                    /\ clip.Bottom <= window.Bottom
                    /\ scrollRegion(clip.Top, clip.Bottom) = effectiveSr(w, window)

\* DECSTBM has stored a bottom beyond the window: DL(1) scrolls rows below
\* the window
C16_Witness ==
    /\ sr.top < sr.bottom
    /\ sr.bottom > WinRows - 1
    /\ LET w == h_DL(World(0), 1)
       IN  /\ ~w.err
           /\ Len(ScrollCalls(w.calls)) = 1
           /\ ScrollCalls(w.calls)[1].clipRegion.Bottom > w.console.Window.Bottom

\* regions inside the window, in window coordinates, and line counts
ScrollRegions == {scrollRegion(0, 1), scrollRegion(1, 2), scrollRegion(0, 2)}

ScrollDeltas == {-2, -1, 1, 2}

\* C17: scroll(delta, region) calls ScrollConsoleScreenBuffer once, with the
\* source rectangle equal to the region, the clip rectangle equal to the
\* region, the destination origin the region's top shifted by delta lines,
\* and the fill cell a space with the current attributes; the source
\* rectangle includes no row outside the region.
C17_ScrollRectangles ==
    \A delta \in ScrollDeltas, region \in ScrollRegions :
        LET w == scroll(World(0), delta, region)
            window == console.Window
            rect == SMALL_RECT(window.Left, window.Top + region.top,
                               window.Right, window.Top + region.bottom)
            shift == w.calls[1].destOrigin.Y - rect.Top
        IN  /\ ~w.err
            /\ Len(w.calls) = 1
            /\ w.calls[1].op = "ScrollConsoleScreenBuffer"
            /\ w.calls[1].scrollRect = rect
            /\ w.calls[1].clipRegion = rect
            /\ w.calls[1].destOrigin.X = rect.Left
            /\ shift = delta \/ shift = -delta
            /\ w.calls[1].char = [UnicodeChar |-> 32, Attributes |-> attributes]

\* the parts of C17 that hold: one call, the clip rectangle is the region,
\* the fill cell is a space with the current attributes
ScrollClipAndFill ==
    \A delta \in ScrollDeltas, region \in ScrollRegions :
        LET w == scroll(World(0), delta, region)
            window == console.Window
        IN  /\ ~w.err
            /\ Len(w.calls) = 1
            /\ w.calls[1].clipRegion =
                   SMALL_RECT(window.Left, window.Top + region.top,
                              window.Right, window.Top + region.bottom)
            /\ w.calls[1].char = [UnicodeChar |-> 32, Attributes |-> attributes]

\* a custom region is stored and DL(1) scrolls it: the source rectangle
\* reaches one row below the region
C17_Witness ==
    /\ sr = scrollRegion(0, 1)
    /\ LET w == h_DL(World(0), 1)
       IN  /\ ~w.err
           /\ Len(ScrollCalls(w.calls)) = 1
           /\ ScrollCalls(w.calls)[1].scrollRect.Bottom =
                  ScrollCalls(w.calls)[1].clipRegion.Bottom + 1
           /\ ScrollCalls(w.calls)[1].destOrigin.Y =
                  ScrollCalls(w.calls)[1].clipRegion.Top

\* lines between the source rectangle and the destination of a scroll call
Displacement(call) == call.scrollRect.Top - call.destOrigin.Y

\* C18: SU(n) and SD(n) scroll the full window, exactly the rows window.top
\* to window.bottom, by n lines, up for SU and down for SD, whatever the
\* stored scroll region is and also when the buffer is taller than the
\* window (the window is the one found after the pending output is flushed).
C18_PageScrollsWindow ==
    \A n \in MoveParams :
        LET up == h_SU(World(0), n)
            down == h_SD(World(0), n)
            window == up.console.Window
        IN  ~up.err /\ ~down.err =>
                /\ Len(ScrollCalls(up.calls)) = 1
                /\ Len(ScrollCalls(down.calls)) = 1
                /\ LET u == ScrollCalls(up.calls)[1]
                       d == ScrollCalls(down.calls)[1]
                   IN  /\ u.clipRegion = window
                       /\ d.clipRegion = window
                       /\ Displacement(u) \in {n, -n}
                       /\ Displacement(d) = -Displacement(u)

\* the parts of C18 that hold: one scroll call each, in opposite directions,
\* starting at the window's top row, and the same for every stored region
PageScrollsIgnoreRegion ==
    \A n \in MoveParams, region \in ScrollRegions :
        LET up == h_SU(World(0), n)
            down == h_SD(World(0), n)
            other == h_SU([World(0) EXCEPT !.sr = region], n)
        IN  ~up.err /\ ~down.err =>
                /\ Len(ScrollCalls(up.calls)) = 1
                /\ Len(ScrollCalls(down.calls)) = 1
                /\ ScrollCalls(other.calls) = ScrollCalls(up.calls)
                /\ ScrollCalls(up.calls)[1].clipRegion.Top = up.console.Window.Top
                /\ Displacement(ScrollCalls(down.calls)[1]) =
                       -Displacement(ScrollCalls(up.calls)[1])

\* a region is stored, nothing is pending, and SU(2) scrolls one line in a
\* clip rectangle that reaches below the window
C18_Witness ==
    /\ sr = scrollRegion(0, 1)
    /\ console.Size.Y > console.Window.Bottom - console.Window.Top + 1
    /\ Len(buffer) = 0
    /\ LET w == h_SU(World(0), 2)
       IN  /\ ~w.err
           /\ Len(ScrollCalls(w.calls)) = 1
           /\ Displacement(ScrollCalls(w.calls)[1]) = 1
           /\ ScrollCalls(w.calls)[1].clipRegion.Bottom > console.Window.Bottom

(***************************************************************************)
(* Properties of Execute for BEL and BS.                                   *)
(***************************************************************************)
\* C19: Execute(BEL) first flushes the pending buffer and then writes the
\* BEL byte directly to the file; BEL is never appended to the buffer;
\* wrap_next and margin_byte are unchanged.
C19_BELWrittenDirect ==
    LET w == h_Execute(World(0), ANSI_BEL)
    IN  ~w.err =>
            /\ w.buffer = <<>>
            /\ Written(w.calls) = buffer \o <<ANSI_BEL>>
            /\ w.wrapNext = wrapNext
            /\ w.marginByte = marginByte

\* what Execute(BEL) does: the byte joins the pending buffer, nothing is
\* written, the wrap state is kept
BELBuffered ==
    LET w == h_Execute(World(0), ANSI_BEL)
    IN  /\ ~w.err
        /\ w.buffer = buffer \o <<ANSI_BEL>>
        /\ w.calls = <<>>
        /\ w.wrapNext = wrapNext
        /\ w.drewMarginByte = drewMarginByte
        /\ w.marginByte = marginByte

\* output is pending in a deferred wrap when BEL arrives: the BEL is queued
\* behind it and no byte reaches the file
C19_Witness ==
    /\ wrapNext
    /\ Len(buffer) > 0
    /\ LET w == h_Execute(World(0), ANSI_BEL)
       IN  /\ ~w.err
           /\ w.buffer = buffer \o <<ANSI_BEL>>
           /\ Written(w.calls) = <<>>

\* the cursor column the handler finds once a pending wrap is flushed
ColumnBefore == getCurrentInfo(FlushWrap(World(0))).curPos.X

\* C20: Execute(BS), from any reachable state, leaves wrap_next false, sets
\* the cached column to max(x - 1, 0), and appends BS to the buffer, also
\* when the column is already 0.
C20_BackspaceQueued ==
    LET w == h_Execute(World(0), ANSI_BACKSPACE)
        flushed == FlushWrap(World(0))
    IN  ~w.err =>
            /\ ~w.wrapNext
            /\ w.curPos.X = (IF ColumnBefore - 1 > 0 THEN ColumnBefore - 1 ELSE 0)
            /\ w.buffer = flushed.buffer \o <<ANSI_BACKSPACE>>

\* the parts of C20 that hold, and the BS queued only right of column 0
BackspaceRightOfMargin ==
    LET w == h_Execute(World(0), ANSI_BACKSPACE)
        flushed == FlushWrap(World(0))
    IN  ~w.err =>
            /\ ~w.wrapNext
            /\ w.curPos.X = (IF ColumnBefore - 1 > 0 THEN ColumnBefore - 1 ELSE 0)
            /\ w.buffer = IF ColumnBefore > 0
                          THEN flushed.buffer \o <<ANSI_BACKSPACE>>
                          ELSE flushed.buffer

\* the cursor is at column 0 with output pending: BS leaves the buffer as
\* it was
C20_Witness ==
    /\ Len(buffer) > 0
    /\ ColumnBefore = 0
    /\ LET w == h_Execute(World(0), ANSI_BACKSPACE)
       IN  /\ ~w.err
           /\ w.curPos.X = 0
           /\ w.buffer = buffer

\* a deferred wrap is pending when BS arrives: it is flushed and cleared
BackspaceClearsWrap ==
    /\ wrapNext
    /\ LET w == h_Execute(World(0), ANSI_BACKSPACE)
       IN  /\ ~w.err
           /\ ~w.wrapNext
           /\ w.curPos.X = SizeX - 2

\* C21: Execute(CR), from any reachable state, leaves wrap_next false, sets
\* the cached column to 0, and appends the CR byte to the buffer, also when
\* the column is already 0.
C21_ReturnQueued ==
    LET w == h_Execute(World(0), ANSI_CARRIAGE_RETURN)
        flushed == FlushWrap(World(0))
    IN  ~w.err =>
            /\ ~w.wrapNext
            /\ w.curPos.X = 0
            /\ w.buffer = flushed.buffer \o <<ANSI_CARRIAGE_RETURN>>

\* the parts of C21 that hold, and the CR queued only right of column 0
ReturnRightOfMargin ==
    LET w == h_Execute(World(0), ANSI_CARRIAGE_RETURN)
        flushed == FlushWrap(World(0))
    IN  ~w.err =>
            /\ ~w.wrapNext
            /\ w.curPos.X = 0
            /\ w.buffer = IF ColumnBefore # 0
                          THEN flushed.buffer \o <<ANSI_CARRIAGE_RETURN>>
                          ELSE flushed.buffer

\* the cursor is at column 0 with output pending: CR leaves the buffer as
\* it was
C21_Witness ==
    /\ Len(buffer) > 0
    /\ ~wrapNext
    /\ ColumnBefore = 0
    /\ LET w == h_Execute(World(0), ANSI_CARRIAGE_RETURN)
       IN  /\ ~w.err
           /\ w.curPos.X = 0
           /\ w.buffer = buffer

(***************************************************************************)
(* Properties of the line feeds.                                           *)
(***************************************************************************)
\* the calls by which the adapter scrolls or positions the cursor itself
RECURSIVE Positioning(_)
Positioning(calls) ==
    IF calls = <<>> THEN <<>>
    ELSE (IF Head(calls).op \in {"ScrollConsoleScreenBuffer",
                                 "SetConsoleCursorPosition"}
          THEN <<Head(calls)>> ELSE <<>>)
         \o Positioning(Tail(calls))

\* the line feed is left to the console: '\n' joins the pending buffer and
\* the adapter neither scrolls nor positions the cursor
LFQueued(w) ==
    /\ w.buffer = FlushWrap(World(0)).buffer \o <<ANSI_LINE_FEED>>
    /\ Positioning(w.calls) = <<>>

\* the adapter realises the line feed itself: the pending output is flushed,
\* it scrolls or positions the cursor, and no '\n' is queued
LFSimulated(w) ==
    /\ w.buffer = <<>>
    /\ Positioning(w.calls) # <<>>

\* C22: Execute(LF) realises the line feed exactly once: either it appends
\* '\n' to the buffer and issues no ScrollConsoleScreenBuffer and no
\* SetConsoleCursorPosition call, or the adapter scrolls/positions itself
\* and appends no '\n'; never both and never neither.
C22_LFExactlyOnce ==
    \A fail \in FailAts :
        LET w == h_Execute(World(fail), ANSI_LINE_FEED)
        IN  ~w.err => (LFQueued(w) /\ ~w.handled) # (LFSimulated(w) /\ w.handled)

\* a custom region is stored, output is pending and the cursor is on the
\* region's bottom row: the adapter scrolls and no '\n' is queued
C22_Witness ==
    /\ sr = scrollRegion(0, 1)
    /\ Len(buffer) > 0
    /\ LET w == h_Execute(World(0), ANSI_LINE_FEED)
       IN  /\ ~w.err
           /\ w.handled
           /\ Len(ScrollCalls(w.calls)) = 1
           /\ w.buffer = <<>>

\* the console realises the line feed: '\n' is queued behind pending output
LFLeftToConsole ==
    /\ Len(buffer) > 0
    /\ LET w == h_Execute(World(0), ANSI_LINE_FEED)
       IN  ~w.err /\ ~w.handled /\ LFQueued(w)

\* the handler once an index has acted and the output it queued is flushed
Indexed == {h_Flush(h_IND(World(0))),
            h_Flush(h_Execute(World(0), ANSI_VERTICAL_TAB)),
            h_Flush(h_Execute(World(0), ANSI_FORM_FEED))}

\* the cursor's row counted from the window's first row
WindowRow(con) == con.CursorPosition.Y - con.Window.Top

\* where an index leaves the cursor of console before, in console after
Advanced(before, after, calls) ==
    LET pos == before.CursorPosition
        region == effectiveSr(World(0), before.Window)
    IN  /\ after.CursorPosition.X = pos.X
        /\ IF pos.Y = region.bottom
           THEN WindowRow(after) = WindowRow(before)
           ELSE IF pos.Y = before.Window.Bottom
           THEN after = before /\ Positioning(calls) = <<>>
           ELSE /\ after.CursorPosition.Y = pos.Y + 1
                /\ after.Window = before.Window

\* C23: after IND(), and after Execute(VT) or Execute(FF), which behave as
\* IND, the cursor column equals the column before the call; the row
\* advances by one unless the cursor was on the bottom row of the effective
\* scroll region (the region scrolls instead and the cursor stays on that
\* row of the window) or on the window bottom outside the region (nothing
\* moves).
C23_INDKeepsColumn ==
    /\ Cardinality(Indexed) = 1
    /\ \A w \in Indexed : ~w.err => Advanced(Flushed, w.console, w.calls)

\* the parts of C23 that hold: VT and FF are IND, and the claim's three
\* cases hold where the handler's cursor is the console's once the pending
\* output is written, unless the console itself scrolls at the window bottom
\* with the cursor right of column 0
INDAboveConsoleScroll ==
    /\ Cardinality(Indexed) = 1
    /\ \A w \in Indexed :
           (/\ ~w.err
            /\ getCurrentInfo(FlushWrap(World(0))).curPos = Flushed.CursorPosition
            /\ ~(/\ Flushed.CursorPosition.Y = Flushed.Window.Bottom
                 /\ Flushed.CursorPosition.Y < Flushed.Size.Y - 1
                 /\ Flushed.CursorPosition.X # 0
                 /\ effectiveSr(World(0), Flushed.Window).bottom =
                        Flushed.Window.Bottom))
           => Advanced(Flushed, w.console, w.calls)

\* the cursor is right of column 0 on the window's bottom row, above the end
\* of the screen buffer: after IND it is on the same buffer row, now the row
\* above the window bottom
C23_Witness ==
    /\ Flushed.CursorPosition.X # 0
    /\ Flushed.CursorPosition.Y = Flushed.Window.Bottom
    /\ Flushed.CursorPosition.Y < Flushed.Size.Y - 1
    /\ LET w == h_Flush(h_IND(World(0)))
       IN  /\ ~w.err
           /\ w.console.CursorPosition = Flushed.CursorPosition
           /\ w.console.CursorPosition.Y = w.console.Window.Bottom - 1

(***************************************************************************)
(* Properties of RI, EL, DECSTBM, VPA and DECTCEM.                         *)
(***************************************************************************)
\* the rows of a rectangle, as a scroll region
RowsOf(rect) == scrollRegion(rect.Top, rect.Bottom)

\* C24: RI() scrolls the effective scroll region down by one line when the
\* cursor is on effective_sr.top (the cursor does not move), and otherwise
\* moves the cursor up by exactly one row without scrolling; the decision
\* uses the top of the effective scroll region, not the top of the window.
C24_RIScrollsRegion ==
    LET w == h_RI(World(0))
        pos == Flushed.CursorPosition
        region == effectiveSr(World(0), Flushed.Window)
    IN  ~w.err =>
            IF pos.Y = region.top
            THEN /\ Len(ScrollCalls(w.calls)) = 1
                 /\ RowsOf(ScrollCalls(w.calls)[1].clipRegion) = region
                 /\ Displacement(ScrollCalls(w.calls)[1]) = -1
                 /\ w.console.CursorPosition = pos
            ELSE /\ ScrollCalls(w.calls) = <<>>
                 /\ w.console.CursorPosition = COORD(pos.X, pos.Y - 1)

\* the parts of C24 that hold: the decision is made on the effective
\* region's top; there one scroll call moves content down one line and the
\* cursor stays; elsewhere nothing scrolls and the cursor goes up one row,
\* but not above the window
RIDecidesOnRegionTop ==
    LET w == h_RI(World(0))
        pos == Flushed.CursorPosition
        region == effectiveSr(World(0), Flushed.Window)
    IN  ~w.err =>
            IF pos.Y = region.top
            THEN /\ Len(ScrollCalls(w.calls)) = 1
                 /\ Displacement(ScrollCalls(w.calls)[1]) = -1
                 /\ w.console.CursorPosition = pos
            ELSE /\ ScrollCalls(w.calls) = <<>>
                 /\ w.console.CursorPosition =
                        COORD(pos.X, IF pos.Y > Flushed.Window.Top
                                     THEN pos.Y - 1 ELSE pos.Y)

\* the cursor is on the top row of the default region: RI scrolls, in a
\* rectangle that is not the effective region
C24_Witness ==
    /\ sr = scrollRegion(0, 0)
    /\ Flushed.CursorPosition.Y = Flushed.Window.Top
    /\ LET w == h_RI(World(0))
       IN  /\ ~w.err
           /\ Len(ScrollCalls(w.calls)) = 1
           /\ RowsOf(ScrollCalls(w.calls)[1].clipRegion) #
                  effectiveSr(World(0), Flushed.Window)

\* the cursor is on the window's top row above a stored region: RI neither
\* scrolls nor moves it
RIAboveRegion ==
    /\ Flushed.CursorPosition.Y = Flushed.Window.Top
    /\ effectiveSr(World(0), Flushed.Window).top > Flushed.Window.Top
    /\ LET w == h_RI(World(0))
       IN  /\ ~w.err
           /\ ScrollCalls(w.calls) = <<>>
           /\ w.console.CursorPosition = Flushed.CursorPosition

\* the cells of the cursor's row that EL(mode) is to erase
LineCells(mode, pos, size) ==
    {c \in Cells(size) :
        /\ c.Y = pos.Y
        /\ mode = 0 => pos.X <= c.X
        /\ mode = 1 => c.X <= pos.X}

\* EL(mode) makes one clearRange call, which clears the cells of region with
\* the current attributes, and leaves the cursor where it was
ELClears(mode, region) ==
    LET w == h_EL(World(0), mode)
        clears == ClearCalls(w.calls)
    IN  ~w.err =>
            /\ Len(clears) = 1
            /\ clears[1].attributes = attributes
            /\ ClearedCells(clears[1], Flushed.Size) = region
            /\ w.console.CursorPosition = Flushed.CursorPosition

\* C25: for every mode the parser can deliver to EL (0, 1, 2 and 3),
\* EL(mode) changes only cells on the cursor's current row, between column
\* 0 and the last column size.x - 1 (mode 0: cursor to end of line; mode 1:
\* start of line to cursor; otherwise the whole line), and does not move
\* the cursor.
C25_ELClearsLine ==
    \A mode \in EraseParams :
        ELClears(mode, LineCells(mode, Flushed.CursorPosition, Flushed.Size))

\* the part of C25 that holds: modes 0, 1 and 2; EL(3) clears the first
\* cell of the screen buffer
ELModesUpTo2 ==
    /\ \A mode \in 0..2 :
           ELClears(mode, LineCells(mode, Flushed.CursorPosition, Flushed.Size))
    /\ ELClears(3, {COORD(0, 0)})

\* the erase parameter 3 reaches EL, with the cursor below the first row of
\* the screen buffer: the cell cleared is not on the cursor's row
C25_Witness ==
    /\ getEraseParam(<< <<51>> >>) = 3
    /\ Flushed.CursorPosition.Y > 0
    /\ LET w == h_EL(World(0), 3)
       IN  /\ ~w.err
           /\ Len(ClearCalls(w.calls)) = 1
           /\ ClearedCells(ClearCalls(w.calls)[1], Flushed.Size) = {COORD(0, 0)}

\* C26: after DECSTBM(top, bottom) the stored scroll region is
\* {top - 1, bottom - 1}, wrap_next is false, and the cursor is at the
\* window's home cell (0,0): column 0 of the window's first row, the same
\* cell CUP(1,1) selects.
C26_DECSTBMHomesCursor ==
    \A top \in TopParams, bottom \in BottomParams :
        LET w == h_DECSTBM(World(0), top, bottom)
            home == h_CUP(World(0), 1, 1)
        IN  ~w.err /\ ~home.err =>
                /\ w.sr = scrollRegion(top - 1, bottom - 1)
                /\ ~w.wrapNext
                /\ w.console.CursorPosition = COORD(0, Flushed.Window.Top)
                /\ w.console.CursorPosition = home.console.CursorPosition

\* the parts of C26 that hold, with the cursor at the first cell of the
\* screen buffer
DECSTBMToBufferOrigin ==
    \A top \in TopParams, bottom \in BottomParams :
        LET w == h_DECSTBM(World(0), top, bottom)
        IN  ~w.err =>
                /\ w.sr = scrollRegion(top - 1, bottom - 1)
                /\ ~w.wrapNext
                /\ ~w.drewMarginByte
                /\ w.buffer = <<>>
                /\ w.console.CursorPosition = COORD(0, 0)

\* the window does not start at row 0 of the screen buffer and a wrap is
\* pending: DECSTBM puts the cursor above the window, CUP(1,1) inside it
C26_Witness ==
    /\ wrapNext
    /\ Flushed.Window.Top > 0
    /\ LET w == h_DECSTBM(World(0), 1, 2)
           home == h_CUP(World(0), 1, 1)
       IN  /\ ~w.err /\ ~home.err
           /\ w.sr = scrollRegion(0, 1)
           /\ w.console.CursorPosition = COORD(0, 0)
           /\ home.console.CursorPosition = COORD(0, Flushed.Window.Top)

\* the rows VPA is asked for: every row of the window and one beyond
VPARows == 1..(WinRows + 1)

\* C27: VPA(n) leaves the cursor column unchanged and moves the cursor to
\* the n-th row of the window, i.e. row
\* clamp(window.top + n - 1, window.top, window.bottom), the same row
\* CUP(n, c) selects, for every window, including one whose top is not row
\* 0 of the screen buffer.
C27_VPAWindowRow ==
    \A n \in VPARows :
        LET w == h_VPA(World(0), n)
            cup == h_CUP(World(0), n, 1)
            window == Flushed.Window
        IN  ~w.err /\ ~cup.err =>
                /\ w.console.CursorPosition.X = Flushed.CursorPosition.X
                /\ w.console.CursorPosition.Y =
                       Clamp(window.Top + n - 1, window.Top, window.Bottom)
                /\ w.console.CursorPosition.Y = cup.console.CursorPosition.Y

\* the parts of C27 that hold: the column is kept, and the row is the
\* screen-buffer row n - 1 clamped into the window
VPABufferRow ==
    \A n \in VPARows :
        LET w == h_VPA(World(0), n)
            window == Flushed.Window
        IN  ~w.err =>
                /\ w.console.CursorPosition.X = Flushed.CursorPosition.X
                /\ w.console.CursorPosition.Y =
                       Clamp(n - 1, window.Top, window.Bottom)

\* the window starts below row 0 of the screen buffer: VPA(2) selects the
\* window's first row, CUP(2, 1) its second
C27_Witness ==
    /\ Flushed.Window.Top > 0
    /\ LET w == h_VPA(World(0), 2)
           cup == h_CUP(World(0), 2, 1)
       IN  /\ ~w.err /\ ~cup.err
           /\ w.console.CursorPosition.Y = Flushed.Window.Top
           /\ cup.console.CursorPosition.Y = Flushed.Window.Top + 1

(***************************************************************************)
(* Properties of the events that fail.                                     *)
(***************************************************************************)
\* the handler after each event, its fail-th backend call failing
Outcomes(fail) ==
    LET w == World(fail)
    IN  {h_Print(w, b) : b \in PrintableBytes}
        \cup {h_Execute(w, b) : b \in ExecuteBytes}
        \cup {h_CUU(w, n) : n \in MoveParams} \cup {h_CUD(w, n) : n \in MoveParams}
        \cup {h_CUF(w, n) : n \in MoveParams} \cup {h_CUB(w, n) : n \in MoveParams}
        \cup {h_CNL(w, n) : n \in MoveParams} \cup {h_CPL(w, n) : n \in MoveParams}
        \cup {h_CHA(w, n) : n \in ColParams} \cup {h_VPA(w, n) : n \in RowParams}
        \cup {h_CUP(w, r, c) : r \in RowParams, c \in ColParams}
        \cup {h_HVP(w, r, c) : r \in RowParams, c \in ColParams}
        \cup {h_DECTCEM(w, v) : v \in BOOLEAN}
        \cup {h_ED(w, n) : n \in EraseParams} \cup {h_EL(w, n) : n \in EraseParams}
        \cup {h_IL(w, n) : n \in MoveParams} \cup {h_DL(w, n) : n \in MoveParams}
        \cup {h_SGR(w, p) : p \in SGRParams}
        \cup {h_SU(w, n) : n \in MoveParams} \cup {h_SD(w, n) : n \in MoveParams}
        \cup {h_DECSTBM(w, t, b) : t \in TopParams, b \in BottomParams}
        \cup {h_RI(w), h_IND(w), h_Flush(w)}

IsPrefix(s, t) == Len(s) <= Len(t) /\ SubSeq(t, 1, Len(s)) = s

\* the handler as the caller finds it after the error, with a backend that
\* works again
Retried(w) ==
    [w EXCEPT !.err = FALSE, !.failAt = 0, !.calls = <<>>, !.pending = <<>>]

\* C28: whenever an adapter event returns a backend error, on return the
\* cached console info is invalid and no byte that was still pending in the
\* buffer has been discarded, so a later Flush writes exactly the bytes not
\* yet written.
C28_ErrorKeepsPending ==
    \A fail \in 1..MaxFail :
        \A w \in Outcomes(fail) :
            w.err /\ ~w.panicked =>
                /\ w.curInfo = NoInfo
                /\ IsPrefix(buffer, Written(w.calls) \o w.buffer)
                /\ LET later == h_Flush(Retried(w))
                   IN  /\ ~later.err
                       /\ later.buffer = <<>>
                       /\ Written(later.calls) = w.buffer

\* output is pending and the file write of an event's Flush fails: the
\* buffer is kept whole and the cache is invalid
C28_Witness ==
    /\ Len(buffer) > 0
    /\ curInfo # NoInfo
    /\ LET w == h_CUP(World(1), 1, 1)
       IN  /\ w.err
           /\ w.curInfo = NoInfo
           /\ w.buffer = buffer
           /\ Written(w.calls) = <<>>

\* the handler's fields and the console, without the bookkeeping of the call
StateOf(w) ==
    [sr |-> w.sr, buffer |-> w.buffer, wrapNext |-> w.wrapNext,
     drewMarginByte |-> w.drewMarginByte, inverted |-> w.inverted,
     attributes |-> w.attributes, marginByte |-> w.marginByte,
     curInfo |-> w.curInfo, infoReset |-> w.infoReset, console |-> w.console]

\* C29: DECTCEM(on) does nothing beyond a flush: its effect on adapter and
\* console state is exactly that of Flush(), so wrap_next, drew_margin_byte
\* after the flush, margin_byte, attributes, scroll region and cursor
\* position are not otherwise changed, and a deferred wrap pending before
\* DECTCEM is still pending after it.
C29_DECTCEMIsFlush ==
    \A visible \in BOOLEAN, fail \in FailAts :
        LET w == h_DECTCEM(World(fail), visible)
            flushed == h_Flush(World(fail))
        IN  /\ w.err = flushed.err
            /\ w.calls = flushed.calls
            /\ StateOf(w) = StateOf(flushed)

\* what DECTCEM does: a flush, and on success the wrap state is cleared
DECTCEMClearsWrap ==
    \A visible \in BOOLEAN, fail \in FailAts :
        LET w == h_DECTCEM(World(fail), visible)
            flushed == h_Flush(World(fail))
        IN  /\ w.err = flushed.err
            /\ w.calls = flushed.calls
            /\ StateOf(w) = StateOf(IF flushed.err THEN flushed
                                    ELSE clearWrap(flushed))

\* a wrap is pending: after DECTCEM the margin byte is painted and the wrap
\* is no longer pending, after Flush it still is
C29_Witness ==
    /\ wrapNext
    /\ ~drewMarginByte
    /\ LET w == h_DECTCEM(World(0), TRUE)
           flushed == h_Flush(World(0))
       IN  /\ ~w.err
           /\ ~w.wrapNext /\ ~w.drewMarginByte
           /\ flushed.wrapNext /\ flushed.drewMarginByte
           /\ w.calls = flushed.calls

(***************************************************************************)
(* Properties of the scrollable rows.                                      *)
(***************************************************************************)
\* LF, RI, IL(n) and DL(n), each on a working backend
LineScrolls ==
    {h_Execute(World(0), ANSI_LINE_FEED), h_RI(World(0))}
    \cup {h_IL(World(0), n) : n \in ScrollCounts}
    \cup {h_DL(World(0), n) : n \in ScrollCounts}

RowsIn(region) == region.top..region.bottom

\* the rows of the screen buffer touched by a clearRange call
ClearedRows(call, size) == {c.Y : c \in ClearedCells(call, size)}

\* C30: LF, RI, IL(n) and DL(n) treat only the effective scroll region as
\* scrollable: none of them changes the content of a row outside the
\* effective scroll region, and none copies content from a row outside the
\* region into the region (the changes are those of the handler's
\* ScrollConsoleScreenBuffer and clearRange calls).
C30_OnlyRegionScrolls ==
    \A w \in LineScrolls :
        LET size == w.console.Size
            region == effectiveSr(w, w.console.Window)
            scrolls == ScrollCalls(w.calls)
            clears == ClearCalls(w.calls)
        IN  ~w.err =>
                /\ \A i \in 1..Len(scrolls), r \in 0..(size.Y - 1) :
                       IF r \in RowsIn(region)
                       THEN RowAfterScroll(scrolls[i], size, r) \subseteq RowsIn(region)
                       ELSE RowAfterScroll(scrolls[i], size, r) = {r}
                /\ \A i \in 1..Len(clears) :
                       ClearedRows(clears[i], size) \subseteq RowsIn(region)

\* the part of C30 that holds: with a stored region inside the window, a
\* scroll changes no row outside the effective region
ScrollsKeepOutsideRows ==
    (sr.top < sr.bottom /\ sr.bottom <= WinRows - 1) =>
        \A w \in LineScrolls :
            LET size == w.console.Size
                region == effectiveSr(w, w.console.Window)
                scrolls == ScrollCalls(w.calls)
            IN  ~w.err =>
                    \A i \in 1..Len(scrolls), r \in 0..(size.Y - 1) :
                        r \notin RowsIn(region) =>
                            RowAfterScroll(scrolls[i], size, r) = {r}

\* a region inside the window is stored and rows of the screen buffer lie
\* below it: DL(1) moves the row below the region into the region's bottom
\* row
C30_Witness ==
    /\ sr = scrollRegion(0, 1)
    /\ LET w == h_DL(World(0), 1)
           region == effectiveSr(w, w.console.Window)
       IN  /\ ~w.err
           /\ Len(ScrollCalls(w.calls)) = 1
           /\ region.bottom < w.console.Size.Y - 1
           /\ RowAfterScroll(ScrollCalls(w.calls)[1], w.console.Size,
                             region.bottom) = {region.bottom + 1}

\* a region is stored and the cursor is below it: IL(1) clears the cursor's
\* row, outside the region
ILClearsOutsideRegion ==
    /\ sr = scrollRegion(0, 1)
    /\ LET w == h_IL(World(0), 1)
           region == effectiveSr(w, w.console.Window)
       IN  /\ ~w.err
           /\ w.console.CursorPosition.Y > region.bottom
           /\ Len(ClearCalls(w.calls)) = 1
           /\ ClearedRows(ClearCalls(w.calls)[1], w.console.Size) =
                  {w.console.CursorPosition.Y}

(***************************************************************************)
(* Properties of the cursor cache.                                         *)
(***************************************************************************)
\* C31: in no reachable sequence of adapter events, with or without backend
\* errors, is updatePos called while the cursor cache is invalid (curInfo
\* nil): the panic in updatePos is unreachable.
C31_UpdatePosNeverPanics ==
    \A fail \in FailAts :
        \A w \in Outcomes(fail) : ~w.panicked

\* the cache is invalid with output pending and a printable arrives: the
\* cache is filled before updatePos stores the advanced position
C31_Witness ==
    /\ curInfo = NoInfo
    /\ Len(buffer) > 0
    /\ LET w == h_Print(World(0), 97)
       IN  /\ ~w.err /\ ~w.panicked
           /\ w.curInfo # NoInfo
           /\ w.curPos.X = console.CursorPosition.X + 1
           /\ w.buffer = buffer \o <<97>>

(***************************************************************************)
(* Properties of large parameters.                                         *)
(***************************************************************************)
\* parameter strings beyond the window: "4", "32768", "40000", "65537"
LargeTokens == {<<52>>, <<51, 50, 55, 54, 56>>, <<52, 48, 48, 48, 48>>,
                <<54, 53, 53, 51, 55>>}

\* the cursor after CUP with the two parameter strings decoded by getInts
CUPOf(rowToken, colToken) ==
    LET ints == getInts(<<rowToken, colToken>>, 2, 1)
    IN  h_CUP(World(0), ints[1], ints[2])

\* C32: row and column parameters are clamped, never wrapped, also when
\* they do not fit in 16 bits: for every row parameter greater than the
\* window height, including values above 32767, CUP places the cursor on
\* window.bottom, and for every column parameter greater than the width,
\* including values above 32767, on column size.x - 1.
C32_LargeParamsClamped ==
    \A rowToken \in LargeTokens, colToken \in LargeTokens :
        LET w == CUPOf(rowToken, colToken)
        IN  ~w.err =>
                /\ Atoi(rowToken) > WinRows /\ Atoi(colToken) > SizeX
                /\ w.console.CursorPosition =
                       COORD(w.console.Size.X - 1, w.console.Window.Bottom)

\* the part of C32 that holds: the parameters whose 0-based cell fits in 16
\* bits are clamped
ShortParamsClamped ==
    \A rowToken \in LargeTokens, colToken \in LargeTokens :
        LET w == CUPOf(rowToken, colToken)
        IN  (/\ ~w.err
             /\ Atoi(colToken) - 1 <= ShortMax
             /\ w.console.Window.Top + Atoi(rowToken) - 1 <= ShortMax)
            => w.console.CursorPosition =
                   COORD(w.console.Size.X - 1, w.console.Window.Bottom)

\* CSI 40000;40000 H with the cursor in the window's last cell: the cursor
\* lands in the window's first cell
C32_Witness ==
    /\ Flushed.CursorPosition = COORD(SizeX - 1, Flushed.Window.Bottom)
    /\ LET w == CUPOf(<<52, 48, 48, 48, 48>>, <<52, 48, 48, 48, 48>>)
       IN  /\ ~w.err
           /\ w.console.CursorPosition = COORD(0, w.console.Window.Top)

(***************************************************************************)
(* Properties of the deferred wrap.                                        *)
(***************************************************************************)
RECURSIVE PaintCalls(_)
PaintCalls(calls) ==
    IF calls = <<>> THEN <<>>
    ELSE (IF Head(calls).op = "WriteConsoleOutput" THEN <<Head(calls)>> ELSE <<>>)
         \o PaintCalls(Tail(calls))

\* C33: SGR does not cancel a pending deferred wrap: for every parameter
\* list, wrap_next and margin_byte are the same after SGR as before it, the
\* margin byte is painted (if not yet drawn) with the attributes in force
\* before the SGR, and a following Print still wraps to the next line.
C33_SGRKeepsWrap ==
    \A params \in SGRAttrParams :
        LET w == h_SGR(World(0), params)
            paints == PaintCalls(w.calls)
            pos == Flushed.CursorPosition
            p == h_Print(Retried(w), 98)
        IN  ~w.err =>
                /\ w.wrapNext = wrapNext
                /\ w.marginByte = marginByte
                /\ wrapNext => w.drewMarginByte
                /\ Len(paints) = (IF wrapNext /\ ~drewMarginByte THEN 1 ELSE 0)
                /\ \A i \in 1..Len(paints) :
                       /\ paints[i].charInfo = [UnicodeChar |-> marginByte,
                                                Attributes |-> console.Attributes]
                       /\ paints[i].region = SMALL_RECT(pos.X, pos.Y, pos.X, pos.Y)
                /\ (wrapNext /\ ~p.err) =>
                       /\ p.buffer = <<marginByte, 98>>
                       /\ ~p.wrapNext
                       /\ p.curPos.X = 1
                       /\ p.curPos.Y = (IF pos.Y < Flushed.Window.Bottom
                                        THEN pos.Y + 1 ELSE pos.Y)

\* a wrap is pending, its margin byte not yet painted, and an SGR changes
\* the attributes: the byte is painted with the old ones and the wrap stays
C33_Witness ==
    /\ wrapNext
    /\ ~drewMarginByte
    /\ LET w == h_SGR(World(0), <<31>>)
       IN  /\ ~w.err
           /\ w.wrapNext
           /\ w.console.Attributes # console.Attributes
           /\ Len(PaintCalls(w.calls)) = 1
           /\ PaintCalls(w.calls)[1].charInfo.Attributes = console.Attributes

PrintOutcomes(fail) == {h_Print(World(fail), b) : b \in PrintableBytes}

\* a second Flush right after a successful one does nothing
FlushTwice ==
    LET first == h_Flush(World(0))
        second == h_Flush(Retried(first))
    IN  ~first.err =>
            /\ ~second.err
            /\ second.calls = <<>>
            /\ StateOf(second) = StateOf(first)

\* an event paints the margin byte at most once, and only for a pending wrap
\* whose byte is not yet drawn; the paint is recorded while the wrap stays
PaintedOnce(w) ==
    LET paints == PaintCalls(w.calls)
    IN  /\ Len(paints) <= 1
        /\ Len(paints) = 1 =>
               /\ wrapNext /\ ~drewMarginByte
               /\ paints[1].charInfo.UnicodeChar = marginByte
               /\ w.wrapNext => (w.drewMarginByte /\ w.marginByte = marginByte)

\* C34: Flush is idempotent and the margin byte is painted at most once per
\* deferred wrap: a Flush immediately after a successful Flush writes
\* nothing to the file and issues no WriteConsoleOutput, and between the
\* Print that sets wrap_next and the moment the wrap is resolved or cleared
\* WriteConsoleOutput is called at most once, however many Flush calls
\* occur (an event paints only an undrawn margin byte, the paint is
\* recorded, Print never paints, and the record lasts as long as the wrap).
C34_FlushIdempotent ==
    /\ FlushTwice
    /\ \A fail \in FailAts :
           /\ \A w \in Outcomes(fail) : PaintedOnce(w)
           /\ \A w \in PrintOutcomes(fail) : PaintCalls(w.calls) = <<>>
           /\ \A w \in Outcomes(fail) \ PrintOutcomes(fail) :
                  (drewMarginByte /\ w.wrapNext) =>
                      w.drewMarginByte /\ w.marginByte = marginByte

\* output is pending behind a wrap whose margin byte is not drawn: the first
\* Flush writes and paints, the second does neither
C34_Witness ==
    /\ wrapNext
    /\ ~drewMarginByte
    /\ Len(buffer) > 0
    /\ LET first == h_Flush(World(0))
           second == h_Flush(Retried(first))
       IN  /\ ~first.err /\ ~second.err
           /\ Written(first.calls) = buffer
           /\ Len(PaintCalls(first.calls)) = 1
           /\ second.calls = <<>>
           /\ second.wrapNext /\ second.drewMarginByte

\* the cursor column as the handler knows it: the cached one, and with no
\* cache the console's once the pending output is written
Column == IF curInfo # NoInfo THEN curPos.X ELSE Flushed.CursorPosition.X

\* a Print that leaves a wrap pending has not queued its byte, and no other
\* event that leaves a wrap pending has queued the margin byte: the bytes
\* written and queued are the ones pending before, the resolved margin byte
\* of a Print, or a BEL
MarginByteHeldBack ==
    \A fail \in FailAts :
        /\ \A b \in PrintableBytes :
               LET w == h_Print(World(fail), b)
               IN  (~w.err /\ w.wrapNext) =>
                       /\ w.marginByte = b
                       /\ Written(w.calls) \o w.buffer =
                              buffer \o (IF wrapNext THEN <<marginByte>> ELSE <<>>)
        /\ \A w \in Outcomes(fail) \ PrintOutcomes(fail) :
               w.wrapNext =>
                   Written(w.calls) \o w.buffer \in {buffer, buffer \o <<ANSI_BEL>>}

\* the wrap state and the cached column of the current state
WrapAtLastColumn ==
    /\ drewMarginByte => wrapNext
    /\ wrapNext => Column = console.Size.X - 1
    /\ curInfo # NoInfo => (0 <= curPos.X /\ curPos.X <= curInfo[1].Size.X - 1)

\* C35: in every reachable adapter state, drew_margin_byte implies
\* wrap_next; whenever wrap_next is true the cursor column is the last
\* column (size.x - 1) and the margin byte is not in the pending buffer;
\* the cached column never exceeds size.x - 1.
C35_WrapInvariants == WrapAtLastColumn /\ MarginByteHeldBack

\* the parts of C35 that hold with backend errors too
WrapFlagsBounded ==
    /\ drewMarginByte => wrapNext
    /\ curInfo # NoInfo => (0 <= curPos.X /\ curPos.X <= curInfo[1].Size.X - 1)
    /\ (wrapNext /\ curInfo # NoInfo) => curPos.X = curInfo[1].Size.X - 1
    /\ MarginByteHeldBack

\* a wrap is pending behind output that a failed Flush left in the buffer:
\* once that output is written the cursor is not in the last column
C35_Witness ==
    /\ wrapNext
    /\ Len(buffer) > 0
    /\ Column = console.Size.X - 1
    /\ Flushed.CursorPosition.X # console.Size.X - 1
    /\ h_Flush(World(0)).wrapNext

(***************************************************************************)
(* Properties of the order of file writes and console calls.               *)
(***************************************************************************)
\* the calls that move the cursor, scroll, erase, paint a cell or change the
\* text attribute
ConsoleCommands == {"SetConsoleCursorPosition", "ScrollConsoleScreenBuffer",
                    "WriteConsoleOutput", "SetConsoleTextAttribute",
                    "clearRange"}

\* C36: every console call that moves the cursor, scrolls, erases, paints a
\* cell or changes the text attribute is issued only when the pending
\* buffer is empty, so all bytes printed before a command reach the file
\* before that command takes effect on the console.
C36_CommandsAfterFlush ==
    \A fail \in FailAts :
        \A w \in Outcomes(fail) :
            /\ Len(w.pending) = Len(w.calls)
            /\ \A i \in 1..Len(w.calls) :
                   /\ w.calls[i].op \in ConsoleCommands \cup {"Write"}
                   /\ w.calls[i].op \in ConsoleCommands => w.pending[i] = 0
                   /\ w.calls[i].op = "Write" =>
                          w.pending[i] = Len(w.calls[i].bytes)

\* output is pending when IND arrives right of column 0: the output and the
\* '\n' are written before the cursor is positioned
C36_Witness ==
    /\ Len(buffer) > 0
    /\ LET w == h_IND(World(0))
       IN  /\ ~w.err
           /\ Len(w.calls) = 2
           /\ w.calls[1].op = "Write"
           /\ w.calls[1].bytes = buffer \o <<ANSI_LINE_FEED>>
           /\ w.calls[2].op = "SetConsoleCursorPosition"
           /\ w.pending = <<Len(buffer) + 1, 0>>

(***************************************************************************)
(* Properties of the cached cursor.                                        *)
(***************************************************************************)
\* C37: whenever the cursor cache is valid, the cached position curPos
\* equals the position the console cursor has once the pending buffer is
\* written to the console (a printable advances one column, BS moves one
\* left, CR goes to column 0, '\n' goes to column 0 of the next row or
\* scrolls at the window bottom, a byte written in the last column wraps).
C37_CacheIsCursor ==
    curInfo # NoInfo => curPos = Flushed.CursorPosition

\* the parts of C37 that hold on a backend that does not fail: the cached
\* column is the console's, and so is the row when the window ends at the
\* last row of the screen buffer
CacheColumnIsCursor ==
    curInfo # NoInfo =>
        /\ curPos.X = Flushed.CursorPosition.X
        /\ console.Window.Bottom = console.Size.Y - 1 =>
               curPos.Y = Flushed.CursorPosition.Y

\* a line feed is pending on the window's bottom row above the end of the
\* screen buffer: the cache keeps the row, the console moves to the next
C37_Witness ==
    /\ curInfo # NoInfo
    /\ Len(buffer) > 0
    /\ buffer[Len(buffer)] = ANSI_LINE_FEED
    /\ curPos.Y = console.Window.Bottom
    /\ Flushed.CursorPosition = COORD(curPos.X, curPos.Y + 1)

\* 'a', LF, 'b' from the first cell of the window with nothing pending: the
\* cache and, once the output is written, the console are at (1, 1)
ShortHelloWorld ==
    /\ buffer = <<>> /\ ~wrapNext
    /\ console.CursorPosition = COORD(0, 0)
    /\ LET a == h_Print(World(0), 97)
           lf == h_Execute(Retried(a), ANSI_LINE_FEED)
           b == h_Print(Retried(lf), 98)
           done == h_Flush(Retried(b))
       IN  /\ ~a.err /\ ~lf.err /\ ~b.err /\ ~done.err
           /\ b.buffer = <<97, ANSI_LINE_FEED, 98>>
           /\ b.curPos = COORD(1, 1)
           /\ Written(done.calls) = <<97, ANSI_LINE_FEED, 98>>
           /\ done.console.CursorPosition = COORD(1, 1)

=============================================================================
